---- MODULE Spec2Model ----
(***************************************************************************)
(* Podcast director bot: the capture pipeline of voiceHandler.js, the      *)
(* duration gate of transcriber.js, the conversation log of                *)
(* conversationLog.js with its director and claim windows, the director    *)
(* flow of directorLoop.js and dashboard.js, the video queue and the topic *)
(* check of dashboard.js, and the playback queue of ttsPlayer.js.          *)
(*                                                                         *)
(* Callbacks run to completion on the single JavaScript thread, so every   *)
(* action below is one callback (or one synchronous call) from its entry   *)
(* to its first await or to its return.  Timers, network calls and stream  *)
(* events are the environment: a pending timer or call may complete at any *)
(* later step.                                                             *)
(***************************************************************************)
EXTENDS Integers, Sequences, FiniteSets, TLC

(***************************************************************************)
(* Bounds of the model.                                                    *)
(***************************************************************************)
MaxItems == 2
MaxTurns == 2
MaxChunks == 2
MaxJoins == 2
MaxAppends == 2
MaxClock == 1
MaxCalls == 1
MaxSuggestions == 2
MaxContext == 2
MaxListeners == 3
MaxFrames == 201
MaxUrls == 2
MaxLines == 2

(***************************************************************************)
(* Participants.  "self" is the bot's own user, "musicbot" a member whose  *)
(* user is flagged as a bot.                                               *)
(***************************************************************************)
Humans == {"host", "guest"}
Bots == {"self", "musicbot"}
UserIds == Humans \cup Bots
botUserId == "self"
\* a participant who is missing from guild.members.cache
Uncached == {"visitor"}
Participants == UserIds \cup Uncached

NoValue == "null"

VARIABLES
  config,            \* values read from the environment at start-up
  startListeners,    \* number of 'start' listeners registered on receiver.speaking
  activeSpeakers,    \* voiceHandler.js: activeSpeakers
  turns,             \* one record per 'start' handler run that opened a pipeline
  currentConnection, \* ttsPlayer.js: currentConnection (attached or null)
  audioPlayer,       \* ttsPlayer.js: audioPlayer (created or null)
  playerStatus,      \* audioPlayer.state.status
  ttsQueue,          \* ttsPlayer.js: ttsQueue
  graceTimers,       \* pending setTimeout(<grace callback>, SILENCE_GRACE_MS)
  pollTimers,        \* pending setTimeout(processQueue, POLL_MS)
  synthPending,      \* dequeued speak items whose getTTSStream call has not returned
  nextItem,          \* number of items pushed so far (item identity)
  started,           \* history: items handed to audioPlayer.play, in call order
  now,               \* Date.now()
  entries,           \* heap of entry objects; log and windows hold references
  log,               \* conversationLog.js: log
  directorBuffer,    \* conversationLog.js: directorBuffer
  claimBuffer,       \* conversationLog.js: claimBuffer
  session,           \* sessionLogPath, sessionStartMs, lastCaptionEndMs, file writes
  directorCalls,     \* getDirectorSuggestion calls in flight
  claimCalls,        \* getClaimExtraction calls in flight
  delivered,         \* history: entries sent by a director call that returned without error
  dashboard,         \* dashboard.js: listener debounce state and recentItems
  logAppendListeners, \* conversationLog.js: logAppendListeners
  headDeferred,      \* history: a grace callback met a speaker, no timer armed since
  clearedUpTo,       \* history: nextItem at the latest clearConnection call
  topicCovered,      \* history: log length at the latest topic check of the session
  last               \* history: the operation that made the last step

voiceVars == <<startListeners, activeSpeakers, turns>>
ttsVars == <<currentConnection, audioPlayer, playerStatus, ttsQueue, graceTimers,
             pollTimers, synthPending, nextItem, started>>
logVars == <<entries, log, directorBuffer, claimBuffer, session>>
callVars == <<directorCalls, claimCalls, delivered>>
vars == <<config, voiceVars, ttsVars, now, logVars, callVars, dashboard, logAppendListeners,
          headDeferred, clearedUpTo, topicCovered, last>>

(***************************************************************************)
(* Text.  A string is a sequence of one-character strings, so that trim,   *)
(* toLowerCase, length and the regular expressions act on characters.      *)
(***************************************************************************)
IsSpace(c) == c \in {" ", "\n", "\t"}

RECURSIVE TrimStart(_)
TrimStart(s) ==
  IF s = <<>> THEN <<>>
  ELSE IF IsSpace(Head(s)) THEN TrimStart(Tail(s)) ELSE s

RECURSIVE TrimEnd(_)
TrimEnd(s) ==
  IF s = <<>> THEN <<>>
  ELSE IF IsSpace(s[Len(s)]) THEN TrimEnd(SubSeq(s, 1, Len(s) - 1)) ELSE s

Trim(s) == TrimEnd(TrimStart(s))

LowerChar(c) ==
  CASE c = "O" -> "o"
    [] c = "K" -> "k"
    [] c = "P" -> "p"
    [] c = "V" -> "v"
    [] OTHER -> c

ToLowerCase(s) == [i \in 1..Len(s) |-> LowerChar(s[i])]

\* text.replace(/[.!?]+$/, '')
RECURSIVE StripEndPunct(_)
StripEndPunct(s) ==
  IF s = <<>> THEN <<>>
  ELSE IF s[Len(s)] \in {".", "!", "?"} THEN StripEndPunct(SubSeq(s, 1, Len(s) - 1))
  ELSE s

\* new Date(timestamp).toISOString()
ToISOString(ts) == <<"iso", ts>>

(***************************************************************************)
(* Configuration (config.js), read once from the environment.              *)
(***************************************************************************)
sampleRate == 48000
channels == 2
opusFrameSize == 960
\* bytes of one decoded 20 ms frame: 960 samples x 2 channels x 2 bytes
ChunkBytes == opusFrameSize * channels * 2

Configs ==
  [ contextMessages : 1..MaxContext,
    autoExtractMinLineLength : {0, 2},
    minAudioMs : {40},
    hostUserId : {"host"},
    directorTriggerPhrases : {{<<"o", "k">>}},
    topicMinNewMessages : {5} ]

\* the configuration of the specifications that do not vary it
DefaultConfig ==
  [ contextMessages |-> MaxContext, autoExtractMinLineLength |-> 2, minAudioMs |-> 40,
    hostUserId |-> "host", directorTriggerPhrases |-> {<<"o", "k">>},
    topicMinNewMessages |-> 5 ]

\* guild.members.cache: display name and username of the cached members
Members ==
  [ u \in Participants |->
      CASE u = "host" -> [displayName |-> "Khi", username |-> "khi01", bot |-> FALSE]
        [] u = "guest" -> [displayName |-> NoValue, username |-> "ann02", bot |-> FALSE]
        [] u = "self" -> [displayName |-> "Director", username |-> "director", bot |-> TRUE]
        [] u = "musicbot" -> [displayName |-> "Music", username |-> "music", bot |-> TRUE]
        [] OTHER -> [displayName |-> NoValue, username |-> NoValue, bot |-> FALSE] ]

(***************************************************************************)
(* voiceHandler.js: the speaking registry.                                 *)
(***************************************************************************)
isAnyoneSpeaking(speakers) == Cardinality(speakers) > 0

(***************************************************************************)
(* ttsPlayer.js: the playback queue.                                       *)
(***************************************************************************)
\* processQueue as it would be without its isAnyoneSpeaking() test
processQueueWithoutSpeakingCheck(conn, player, queue, status, speakers) ==
  IF ~conn \/ ~player \/ Len(queue) = 0 THEN "none"
  ELSE IF status # "Idle" THEN "none"
  ELSE "grace"

\* processQueue up to its setTimeout: the timer it arms, if any
processQueue(conn, player, queue, status, speakers) ==
  IF ~conn \/ ~player \/ Len(queue) = 0 THEN "none"
  ELSE IF status # "Idle" THEN "none"
  ELSE IF isAnyoneSpeaking(speakers) THEN "poll"
  ELSE "grace"

\* the timers pending after setTimeout was called as processQueue decided
ArmedTimers(kind, grace, poll) ==
  CASE kind = "grace" -> [grace |-> grace + 1, poll |-> poll]
    [] kind = "poll" -> [grace |-> grace, poll |-> poll + 1]
    [] OTHER -> [grace |-> grace, poll |-> poll]

\* a processQueue() call made with the given queue and player status
RunProcessQueue(queue, status, grace, poll) ==
  LET armed == ArmedTimers(processQueue(currentConnection, audioPlayer, queue, status,
                                        activeSpeakers), grace, poll)
  IN  /\ graceTimers' = armed.grace
      /\ pollTimers' = armed.poll

\* speak and playLocalMp3: push one item, then processQueue()
Enqueue(type) ==
  IF ~currentConnection \/ ~audioPlayer
  THEN UNCHANGED ttsVars
  ELSE /\ nextItem < MaxItems
       /\ nextItem' = nextItem + 1
       /\ ttsQueue' = Append(ttsQueue, [id |-> nextItem + 1, type |-> type])
       /\ RunProcessQueue(ttsQueue', playerStatus, graceTimers, pollTimers)
       /\ UNCHANGED <<currentConnection, audioPlayer, playerStatus, synthPending, started>>

\* audioPlayer.play(resource): the player leaves Idle at once; a resource
\* that was playing is replaced
Play(item) ==
  /\ playerStatus' = "Playing"
  /\ started' = Append(started, item.id)

setConnection ==
  /\ currentConnection' = TRUE
  /\ audioPlayer' = TRUE
  /\ UNCHANGED <<playerStatus, ttsQueue, graceTimers, pollTimers, synthPending,
                 nextItem, started>>

clearConnection ==
  /\ currentConnection' = FALSE
  /\ ttsQueue' = <<>>
  /\ UNCHANGED <<audioPlayer, playerStatus, graceTimers, pollTimers, synthPending,
                 nextItem, started>>

\* setTimeout(processQueue, POLL_MS) fires
PollTimerFires ==
  /\ pollTimers > 0
  /\ RunProcessQueue(ttsQueue, playerStatus, graceTimers, pollTimers - 1)
  /\ UNCHANGED <<currentConnection, audioPlayer, playerStatus, ttsQueue, synthPending,
                 nextItem, started>>

\* the callback armed with SILENCE_GRACE_MS fires: re-check, shift, start the item.
\* exists: fs.existsSync(resolved) for an mp3 item
GraceTimerFires(exists) ==
  /\ graceTimers > 0
  /\ IF isAnyoneSpeaking(activeSpeakers)
     THEN /\ graceTimers' = graceTimers - 1
          /\ pollTimers' = pollTimers + 1
          /\ UNCHANGED <<ttsQueue, playerStatus, synthPending, started>>
     ELSE IF ttsQueue = <<>>
     THEN /\ graceTimers' = graceTimers - 1
          /\ UNCHANGED <<pollTimers, ttsQueue, playerStatus, synthPending, started>>
     ELSE LET item == Head(ttsQueue) IN
          /\ ttsQueue' = Tail(ttsQueue)
          /\ IF item.type = "speak"
             THEN /\ synthPending' = synthPending \cup {item}
                  /\ graceTimers' = graceTimers - 1
                  /\ UNCHANGED <<pollTimers, playerStatus, started>>
             ELSE IF ~exists
             THEN /\ RunProcessQueue(ttsQueue', playerStatus, graceTimers - 1, pollTimers)
                  /\ UNCHANGED <<playerStatus, synthPending, started>>
             ELSE /\ Play(item)
                  /\ graceTimers' = graceTimers - 1
                  /\ UNCHANGED <<pollTimers, synthPending>>
  /\ UNCHANGED <<currentConnection, audioPlayer, nextItem>>

\* the return as it would be if a missing stream did not call processQueue()
SynthReturnsStalls(item, stream) ==
  /\ item \in synthPending
  /\ synthPending' = synthPending \ {item}
  /\ IF stream
     THEN /\ Play(item)
          /\ UNCHANGED <<graceTimers, pollTimers>>
     ELSE UNCHANGED <<graceTimers, pollTimers, playerStatus, started>>
  /\ UNCHANGED <<currentConnection, audioPlayer, ttsQueue, nextItem>>

\* await getTTSStream(...) returns for a dequeued speak item: a stream, or null
SynthReturns(item, stream) ==
  /\ item \in synthPending
  /\ synthPending' = synthPending \ {item}
  /\ IF stream
     THEN /\ Play(item)
          /\ UNCHANGED <<graceTimers, pollTimers>>
     ELSE /\ RunProcessQueue(ttsQueue, playerStatus, graceTimers, pollTimers)
          /\ UNCHANGED <<playerStatus, started>>
  /\ UNCHANGED <<currentConnection, audioPlayer, ttsQueue, nextItem>>

\* the Idle event as it would be without the listener that calls processQueue()
PlayerIdleWithoutListener ==
  /\ playerStatus = "Playing"
  /\ playerStatus' = "Idle"
  /\ UNCHANGED <<graceTimers, pollTimers>>
  /\ UNCHANGED <<currentConnection, audioPlayer, ttsQueue, synthPending, nextItem, started>>

\* the player finishes its resource: AudioPlayerStatus.Idle listener -> processQueue()
PlayerIdle ==
  /\ playerStatus = "Playing"
  /\ playerStatus' = "Idle"
  /\ RunProcessQueue(ttsQueue, "Idle", graceTimers, pollTimers)
  /\ UNCHANGED <<currentConnection, audioPlayer, ttsQueue, synthPending, nextItem, started>>

(***************************************************************************)
(* Regular expressions of dashboard.js, matched on character sequences.    *)
(* A pattern is a sequence of elements: a literal (case-insensitive), \s+, *)
(* an optional group, or an alternation of groups.                         *)
(***************************************************************************)
Lit(str) == [i \in 1..Len(str) |-> [t |-> "lit", c |-> str[i]]]
Ws1 == <<[t |-> "ws1"]>>
Opt(pat) == <<[t |-> "opt", p |-> pat]>>
Alt(pats) == <<[t |-> "alt", ps |-> pats]>>

\* the positions just after a match of pat that starts at a position of S
RECURSIVE MatchEnds(_, _, _)
MatchEnds(pat, text, S) ==
  IF pat = <<>> \/ S = {} THEN S
  ELSE LET e == Head(pat)
           S1 == CASE e.t = "lit" ->
                        {i + 1 : i \in {j \in S : j <= Len(text) /\ LowerChar(text[j]) = e.c}}
                   [] e.t = "ws1" ->
                        {k \in 2..(Len(text) + 1) :
                           \E i \in S : i < k /\ \A m \in i..(k - 1) : IsSpace(text[m])}
                   [] e.t = "opt" -> S \cup MatchEnds(e.p, text, S)
                   [] OTHER -> UNION {MatchEnds(e.ps[n], text, S) : n \in DOMAIN e.ps}
       IN  MatchEnds(Tail(pat), text, S1)

\* the longest run of characters other than a line terminator that starts at i
RECURSIVE DotPlus(_, _)
DotPlus(text, i) ==
  IF i > Len(text) THEN <<>>
  ELSE IF text[i] = "\n" THEN <<>>
  ELSE <<text[i]>> \o DotPlus(text, i + 1)

\* text.match(/<prefix>(.+)/i)[1]: the leftmost match, the final \s+ of the
\* prefix as long as it can be; <<>> stands for "no match" (a capture of .+
\* is never empty)
Capture(prefix, text) ==
  LET feasible(p) == {e \in MatchEnds(prefix, text, {p}) : DotPlus(text, e) # <<>>}
      starts == {p \in 1..Len(text) : feasible(p) # {}}
  IN  IF starts = {} THEN <<>>
      ELSE LET p == CHOOSE q \in starts : \A r \in starts : q <= r
               e == CHOOSE x \in feasible(p) : \A y \in feasible(p) : y <= x
           IN  DotPlus(text, e)

PULL_VIDEO_REGEX ==
  Lit(<<"p", "u", "l", "l">>) \o Ws1 \o Opt(Lit(<<"u", "p">>) \o Ws1) \o Lit(<<"a">>) \o Ws1
  \o Lit(<<"v", "i", "d", "e">>) \o Opt(Lit(<<"o">>)) \o Opt(Lit(<<"s">>)) \o Ws1
  \o Alt(<<Lit(<<"o", "f">>), Lit(<<"o", "n">>), Lit(<<"b", "y">>),
           Lit(<<"w", "i", "t", "h">>)>>) \o Ws1

LATEST_VIDEO_FROM_REGEX ==
  Opt(Lit(<<"p", "l", "a", "y">>) \o Ws1) \o Opt(Lit(<<"t", "h", "e">>) \o Ws1)
  \o Lit(<<"l", "a", "t", "e", "s", "t">>) \o Ws1 \o Lit(<<"v", "i", "d", "e", "o">>) \o Ws1
  \o Lit(<<"f", "r", "o", "m">>) \o Ws1

\* s.replace(/\s*\.\.\.?\s*$/, '')
StripEllipsis(s) ==
  LET tails == {i \in 1..Len(s) :
                  Trim(SubSeq(s, i, Len(s))) \in {<<".", ".">>, <<".", ".", ".">>}}
  IN  IF tails = {} THEN s
      ELSE SubSeq(s, 1, (CHOOSE i \in tails : \A j \in tails : i <= j) - 1)

Slice0(s, n) == IF Len(s) <= n THEN s ELSE SubSeq(s, 1, n)

\* match[1].trim().replace(/\s*\.\.\.?\s*$/, '').slice(0, 200)
TopicOf(capture) == Slice0(StripEllipsis(Trim(capture)), 200)

PULL_VIDEO_DEBOUNCE_MS == 60000

(***************************************************************************)
(* conversationLog.js.  log and directorBuffer hold the same entry object  *)
(* (a reference into entries); claimBuffer holds a copy made at append.    *)
(***************************************************************************)
\* buffer.slice(0, n), the slice as it would be if it were taken from the front
SliceFirst(buffer, n) ==
  IF n <= 0 THEN <<>>
  ELSE IF Len(buffer) <= n THEN buffer
  ELSE SubSeq(buffer, 1, n)

\* buffer.slice(-n)
SliceLast(buffer, n) ==
  IF n <= 0 \/ Len(buffer) <= n THEN buffer
  ELSE SubSeq(buffer, Len(buffer) - n + 1, Len(buffer))

\* the { speaker, text, timestamp } messages built from the last N entries of a window
RecentMessages(buffer, heap) ==
  LET recent == SliceLast(buffer, config.contextMessages)
  IN  [i \in 1..Len(recent) |->
         [speaker |-> heap[recent[i]].speaker,
          text |-> heap[recent[i]].text,
          timestamp |-> ToISOString(heap[recent[i]].timestamp)]]

getRecentForDirector == RecentMessages(directorBuffer, entries)

getRecentForClaimExtraction == RecentMessages(claimBuffer, entries)

getLog == [i \in 1..Len(log) |-> entries[log[i]]]

\* startSessionLog as it would be without the line claimBuffer.length = 0
startSessionLogKeepsClaims ==
  /\ log' = <<>>
  /\ directorBuffer' = <<>>
  /\ claimBuffer' = claimBuffer
  /\ session' = [logPath |-> TRUE, captionPath |-> TRUE, startMs |-> now,
                 lastCaptionEndMs |-> 0, logLines |-> 1, captionBlocks |-> 0]
  /\ UNCHANGED entries

startSessionLog ==
  /\ log' = <<>>
  /\ directorBuffer' = <<>>
  /\ claimBuffer' = <<>>
  /\ session' = [logPath |-> TRUE, captionPath |-> TRUE, startMs |-> now,
                 lastCaptionEndMs |-> 0, logLines |-> 1, captionBlocks |-> 0]
  /\ UNCHANGED entries

\* reset as it would be with directorBuffer.shift() for directorBuffer.length = 0
resetDropsOldest ==
  directorBuffer' = IF directorBuffer = <<>> THEN <<>> ELSE Tail(directorBuffer)

\* reset(): imported as resetLog by directorLoop.js and as resetDirectorBuffer by dashboard.js
reset == directorBuffer' = <<>>

resetClaimBuffer == claimBuffer' = <<>>

(***************************************************************************)
(* dashboard.js: the listener registered with onLogAppend when the module  *)
(* is loaded.  It runs inside append, after the three pushes.              *)
(***************************************************************************)
logAppendListener(entry) ==
  LET pull == Capture(PULL_VIDEO_REGEX, entry.text)
      latest == Capture(LATEST_VIDEO_FROM_REGEX, entry.text)
      minLen == config.autoExtractMinLineLength
  IN  IF pull # <<>>
      THEN LET topic == TopicOf(pull) IN
           IF topic = <<>>
              \/ (topic = dashboard.lastVideoTopic
                  /\ now - dashboard.lastVideoTopicAt <= PULL_VIDEO_DEBOUNCE_MS)
           THEN UNCHANGED <<dashboard, ttsVars, claimCalls>>
           ELSE /\ dashboard' = [dashboard EXCEPT !.lastVideoTopic = topic,
                                                   !.lastVideoTopicAt = now]
                /\ Enqueue("mp3")
                /\ UNCHANGED claimCalls
      ELSE IF latest # <<>>
      THEN LET channelName == TopicOf(latest) IN
           IF channelName = <<>>
              \/ (channelName = dashboard.lastLatestVideoChannel
                  /\ now - dashboard.lastLatestVideoChannelAt <= PULL_VIDEO_DEBOUNCE_MS)
           THEN UNCHANGED <<dashboard, ttsVars, claimCalls>>
           ELSE /\ dashboard' = [dashboard EXCEPT !.lastLatestVideoChannel = channelName,
                                                   !.lastLatestVideoChannelAt = now]
                /\ Enqueue("mp3")
                /\ UNCHANGED claimCalls
      ELSE IF minLen > 0 /\ Len(entry.text) > minLen
      THEN LET messages == RecentMessages(claimBuffer', entries') IN
           IF Len(messages) > 0
           THEN /\ Len(claimCalls) < MaxCalls
                /\ claimCalls' = Append(claimCalls, [messages |-> messages, path |-> "auto"])
                /\ UNCHANGED <<dashboard, ttsVars>>
           ELSE UNCHANGED <<dashboard, ttsVars, claimCalls>>
      ELSE UNCHANGED <<dashboard, ttsVars, claimCalls>>

\* the listeners a caller may pass to onLogAppend besides the dashboard's own:
\* one that returns, one that throws, and a value that is not a function
ListenerArgs == {"returns", "throws", "notFunction"}

\* onLogAppend(fn)
onLogAppend(fn) ==
  IF fn # "notFunction"
  THEN logAppendListeners' = Append(logAppendListeners, fn)
  ELSE UNCHANGED logAppendListeners

\* the dispatch as it would be without the try/catch: the first exception
\* ends the forEach and leaves append
RECURSIVE notifyListenersUncaught(_)
notifyListenersUncaught(fns) ==
  IF fns = <<>> THEN [called |-> <<>>, thrown |-> FALSE]
  ELSE IF Head(fns) = "throws" THEN [called |-> <<Head(fns)>>, thrown |-> TRUE]
  ELSE LET rest == notifyListenersUncaught(Tail(fns))
       IN  [called |-> <<Head(fns)>> \o rest.called, thrown |-> rest.thrown]

\* logAppendListeners.forEach((fn) => { try { fn(entry) } catch ... }): the
\* listeners called, in call order, and whether an exception left the loop
RECURSIVE notifyListeners(_)
notifyListeners(fns) ==
  IF fns = <<>> THEN [called |-> <<>>, thrown |-> FALSE]
  ELSE LET rest == notifyListeners(Tail(fns))  \* an exception of Head(fns) is caught
       IN  [called |-> <<Head(fns)>> \o rest.called, thrown |-> rest.thrown]

\* what one append call does with the listeners: none for a blank text
AppendDispatch(text) ==
  IF Trim(text) = <<>> THEN [called |-> <<>>, thrown |-> FALSE]
  ELSE notifyListeners(logAppendListeners)

\* the caption timing of append: the end of the new block
CaptionEnd(startMs, sessionStartMs, t) ==
  LET diff == t - sessionStartMs
      endMs == IF diff > 0 THEN diff ELSE 0
  IN  IF endMs <= startMs THEN startMs + 1000 ELSE endMs

\* the values of text that are not strings: a string is a sequence of
\* characters, null and undefined are written as a sequence whose one
\* element is not a character
Null == <<"null">>
Undefined == <<"undefined">>
Nullish == {Null, Undefined}

\* text?.trim(): undefined for null and undefined
OptionalTrim(text) == IF text \in Nullish THEN Undefined ELSE Trim(text)

\* trimmed.toLowerCase() is evaluated before the blank check: on undefined it
\* raises a TypeError, which leaves append
appendRaises(text) == OptionalTrim(text) = Undefined

\* append as it would be without the return for a blank text
appendWithoutBlankCheck(speaker, text, userId) ==
  LET entry == [speaker |-> speaker, text |-> Trim(text), timestamp |-> now,
                userId |-> userId]
  IN  /\ Len(entries) < 2 * MaxAppends
      /\ entries' = entries \o <<entry, entry>>
      /\ log' = Append(log, Len(entries) + 1)
      /\ directorBuffer' = Append(directorBuffer, Len(entries) + 1)
      /\ claimBuffer' = Append(claimBuffer, Len(entries) + 2)
      /\ UNCHANGED <<session, dashboard, ttsVars, claimCalls>>

\* append as it would be if the copy for the claim window were not pushed
appendWithoutClaimCopy(speaker, text, userId) ==
  LET trimmed == Trim(text) IN
  IF trimmed = <<>>
  THEN UNCHANGED <<logVars, dashboard, ttsVars, claimCalls>>
  ELSE LET entry == [speaker |-> speaker, text |-> trimmed, timestamp |-> now,
                     userId |-> userId]
       IN  /\ Len(entries) < 2 * MaxAppends
           /\ entries' = entries \o <<entry, entry>>
           /\ log' = Append(log, Len(entries) + 1)
           /\ directorBuffer' = Append(directorBuffer, Len(entries) + 1)
           /\ claimBuffer' = claimBuffer
           /\ logAppendListener(entry)
           /\ UNCHANGED session

\* append as it would be with log.unshift(entry) for log.push(entry)
appendAtFront(speaker, text, userId) ==
  LET trimmed == Trim(text) IN
  IF trimmed = <<>>
  THEN UNCHANGED <<logVars, dashboard, ttsVars, claimCalls>>
  ELSE LET entry == [speaker |-> speaker, text |-> trimmed, timestamp |-> now,
                     userId |-> userId]
       IN  /\ Len(entries) < 2 * MaxAppends
           /\ entries' = entries \o <<entry, entry>>
           /\ log' = <<Len(entries) + 1>> \o log
           /\ directorBuffer' = Append(directorBuffer, Len(entries) + 1)
           /\ claimBuffer' = Append(claimBuffer, Len(entries) + 2)
           /\ IF \E i \in DOMAIN AppendDispatch(text).called :
                    AppendDispatch(text).called[i] = "dashboard"
              THEN logAppendListener(entry)
              ELSE UNCHANGED <<dashboard, ttsVars, claimCalls>>
           /\ IF AppendDispatch(text).thrown
              THEN UNCHANGED session
              ELSE session' =
                [session EXCEPT
                   !.logLines = IF session.logPath THEN @ + 1 ELSE @,
                   !.captionBlocks = IF session.captionPath THEN @ + 1 ELSE @,
                   !.lastCaptionEndMs =
                      IF session.captionPath
                      THEN CaptionEnd(session.lastCaptionEndMs, session.startMs, now)
                      ELSE @]

\* append(speaker, text, { userId }) for a text that is a string
append(speaker, text, userId) ==
  LET trimmed == Trim(text) IN
  IF trimmed = <<>>
  THEN UNCHANGED <<logVars, dashboard, ttsVars, claimCalls>>
  ELSE LET entry == [speaker |-> speaker, text |-> trimmed, timestamp |-> now,
                     userId |-> userId]
       IN  /\ entries' = entries \o <<entry, entry>>
           /\ log' = Append(log, Len(entries) + 1)
           /\ directorBuffer' = Append(directorBuffer, Len(entries) + 1)
           /\ claimBuffer' = Append(claimBuffer, Len(entries) + 2)
           /\ IF \E i \in DOMAIN AppendDispatch(text).called :
                    AppendDispatch(text).called[i] = "dashboard"
              THEN logAppendListener(entry)
              ELSE UNCHANGED <<dashboard, ttsVars, claimCalls>>
           /\ IF AppendDispatch(text).thrown
              THEN UNCHANGED session
              ELSE session' =
                [session EXCEPT
                   !.logLines = IF session.logPath THEN @ + 1 ELSE @,
                   !.captionBlocks = IF session.captionPath THEN @ + 1 ELSE @,
                   !.lastCaptionEndMs =
                      IF session.captionPath
                      THEN CaptionEnd(session.lastCaptionEndMs, session.startMs, now)
                      ELSE @]

(***************************************************************************)
(* conversationLog.js: updateEntry(index, { speaker?, text? }).  It is     *)
(* imported by dashboard.js; its body is taken from the specification:     *)
(* the entry at a valid index is edited in place, an index that is not a   *)
(* position of the log gives { error } and changes nothing.                *)
(***************************************************************************)
\* whether updateEntry finds an entry at the index
ValidIndex(index) == index \in 0..(Len(log) - 1)

updateEntry(index, patch) ==
  IF ValidIndex(index)
  THEN entries' =
         [entries EXCEPT
            ![log[index + 1]] =
               [@ EXCEPT
                  !.speaker = IF "speaker" \in patch.fields THEN patch.speaker ELSE @,
                  !.text = IF "text" \in patch.fields THEN patch.text ELSE @]]
  ELSE UNCHANGED entries

(***************************************************************************)
(* dashboard.js: PATCH /conversation.  payload is the parsed body; its     *)
(* index is a number, or a value parseInt turns into NaN.                  *)
(***************************************************************************)
NotANumber == [isNaN |-> TRUE, value |-> 0]

Number(n) == [isNaN |-> FALSE, value |-> n]

\* the bodies sent to PATCH /conversation
Payloads ==
  [ index : {NotANumber} \cup {Number(n) : n \in -1..MaxAppends},
    fields : {{}, {"speaker"}, {"text"}},
    speaker : {"Ed"},
    text : {<<"z">>} ]

\* the patch the handler builds: only speaker and text are copied
PatchOf(payload) ==
  [fields |-> payload.fields \cap {"speaker", "text"},
   speaker |-> payload.speaker, text |-> payload.text]

\* the status of the response
patchConversationStatus(payload) ==
  IF payload.index.isNaN THEN 400
  ELSE IF ~ValidIndex(payload.index.value) THEN 400
  ELSE 200

\* the handler as it would be if an index that is not a number fell back to 0
patchConversationDefaultsIndex(payload) ==
  updateEntry(payload.index.value, PatchOf(payload))

\* the 'end' callback of the request, for a body that is valid JSON
patchConversation(payload) ==
  IF payload.index.isNaN
  THEN UNCHANGED entries
  ELSE updateEntry(payload.index.value, PatchOf(payload))

(***************************************************************************)
(* dashboard.js: the video queue.  A URL string is a record of what        *)
(* new URL(u) finds in it: scheme and hostname are NoValue for a string    *)
(* that does not parse; the empty string has the empty path.  The file     *)
(* video-queue.txt and the SSE broadcasts are written from videoQueue and  *)
(* currentVideoUrl and are not kept as state.                              *)
(***************************************************************************)
VIDEO_OPEN_ALLOWED_HOSTS ==
  { "youtube.com", "www.youtube.com", "m.youtube.com", "youtu.be",
    "vimeo.com", "www.vimeo.com", "player.vimeo.com",
    "dailymotion.com", "www.dailymotion.com",
    "twitch.tv", "www.twitch.tv", "player.twitch.tv" }

\* currentVideoUrl = null
NoUrl == [scheme |-> NoValue, hostname |-> NoValue, path |-> NoValue]

\* '' (also what a string of spaces trims to and what a non-string maps to)
EmptyString == [scheme |-> NoValue, hostname |-> NoValue, path |-> ""]

\* the strings sent as URLs: two on allowed hosts, one on another host, one
\* with another scheme on an allowed host, one that is no URL, and ''
UrlStrings ==
  { [scheme |-> "https", hostname |-> "youtu.be", path |-> "/a"],
    [scheme |-> "https", hostname |-> "vimeo.com", path |-> "/b"],
    [scheme |-> "https", hostname |-> "example.com", path |-> "/x"],
    [scheme |-> "ftp", hostname |-> "youtu.be", path |-> "/f"],
    [scheme |-> NoValue, hostname |-> NoValue, path |-> "video"],
    EmptyString }

\* the arrays of at most n strings
SeqsUpTo(S, n) == UNION {[1..k -> S] : k \in 0..n}

\* the bodies of POST /video/load: json is whether the body parses; urls
\* and url are what lines 707-710 make of payload.urls and payload.url
\* before the filter: [] when urls is no array, '' when url is no string
VideoPayloads ==
  [ json : BOOLEAN, urls : SeqsUpTo(UrlStrings, MaxUrls), url : UrlStrings ]

\* Boolean(u) for a string
NonEmpty(u) == u # EmptyString

\* isAllowedVideoUrl(u): new URL(u) parses and its hostname is allowed
isAllowedVideoUrl(u) ==
  u.scheme # NoValue /\ u.hostname \in VIDEO_OPEN_ALLOWED_HOSTS

\* loadVideoUrl(url): the dashboard state after the call
loadVideoUrl(url, d) ==
  IF url.scheme \notin {"http", "https"} THEN d
  ELSE IF url.hostname \notin VIDEO_OPEN_ALLOWED_HOSTS THEN d
  ELSE [d EXCEPT !.currentVideoUrl = url]

\* POST /video/load: the response status and the dashboard state after it
postVideoLoad(payload, d) ==
  LET urlsArray == SelectSeq(payload.urls, NonEmpty)
      valid == SelectSeq(urlsArray, isAllowedVideoUrl)
      cleared == [d EXCEPT !.videoQueue = <<>>]
  IN  IF ~payload.json THEN [status |-> 400, dashboard |-> d]
      ELSE IF Len(urlsArray) > 0
      THEN IF Len(valid) = 0
           THEN [status |-> 403, dashboard |-> cleared]
           ELSE [status |-> 200,
                 dashboard |-> loadVideoUrl(Head(valid),
                                            [cleared EXCEPT !.videoQueue = Tail(valid)])]
      ELSE IF payload.url # EmptyString
      THEN IF ~isAllowedVideoUrl(payload.url)
           THEN [status |-> 403, dashboard |-> d]
           ELSE [status |-> 200, dashboard |-> loadVideoUrl(payload.url, cleared)]
      ELSE [status |-> 400, dashboard |-> d]

\* POST /video/ended and POST /video/next: the next queued URL is loaded
postVideoNext(d) ==
  IF d.videoQueue # <<>>
  THEN loadVideoUrl(Head(d.videoQueue), [d EXCEPT !.videoQueue = Tail(@)])
  ELSE [d EXCEPT !.currentVideoUrl = NoUrl]

\* POST /video/stop
postVideoStop(d) == [d EXCEPT !.currentVideoUrl = NoUrl]

(***************************************************************************)
(* dashboard.js: the periodic topic check of startDashboard.  config.topic *)
(* is not part of config.js; the check is taken as enabled with a positive *)
(* intervalSec, and minNewMessages as the configuration gives it.          *)
(***************************************************************************)
\* Math.max(0, topicCfg.minNewMessages ?? 5)
minNewMessages == IF config.topicMinNewMessages > 0 THEN config.topicMinNewMessages ELSE 0

\* whether the setInterval callback passes its three returns
topicCheckDue(d, logLength) ==
  /\ ~d.topicCheckInProgress
  /\ logLength >= 2
  /\ logLength - d.lastTopicCheckLogLength >= minNewMessages

\* the setInterval callback up to its getTopicUpdate call
onTopicInterval(d, logLength) ==
  IF topicCheckDue(d, logLength)
  THEN [d EXCEPT !.lastTopicCheckLogLength = logLength, !.topicCheckInProgress = TRUE]
  ELSE d

\* the replies of getTopicUpdate drawn: an error, or the topic unchanged
\* (a reply with a new topic goes on to appendTopicEntry and setTopic)
TopicResults == { [error |-> TRUE], [error |-> FALSE] }

\* the .then callback of getTopicUpdate for these replies
onTopicUpdate(d, result) == [d EXCEPT !.topicCheckInProgress = FALSE]

(***************************************************************************)
(* dashboard.js: pushSuggestion.                                           *)
(***************************************************************************)
MAX_ITEMS == 100

pushSuggestion(items, text, t) ==
  IF Trim(text) = <<>> THEN items
  ELSE LET pushed == Append(items, [type |-> "suggestion", text |-> Trim(text), at |-> t])
       IN  IF Len(pushed) > MAX_ITEMS THEN Tail(pushed) ELSE pushed

\* the replies of the director service: an error, no suggestion, or a suggestion
DirectorResults ==
  { [error |-> TRUE, suggestion |-> <<>>],
    [error |-> FALSE, suggestion |-> <<>>],
    [error |-> FALSE, suggestion |-> <<"s">>] }

\* a sequence without its i-th element
RemoveAt(seq, i) == SubSeq(seq, 1, i - 1) \o SubSeq(seq, i + 1, Len(seq))

\* the entries (references) a call made now would send
SentRefs(buffer) ==
  LET recent == SliceLast(buffer, config.contextMessages)
  IN  {recent[i] : i \in 1..Len(recent)}

(***************************************************************************)
(* directorLoop.js: requestDirectorSuggestion, up to its await.  It reads  *)
(* the window as it is when called (buffer, heap).                         *)
(***************************************************************************)
requestDirectorSuggestion(path, buffer, heap) ==
  LET messages == RecentMessages(buffer, heap) IN
  IF Len(messages) = 0
  THEN UNCHANGED directorCalls
  ELSE /\ Len(directorCalls) < MaxSuggestions
       /\ directorCalls' = Append(directorCalls,
            [messages |-> messages, refs |-> SentRefs(buffer), path |-> path])

\* the return as it would be if resetLog ran before the error check
directorSuggestionResetsFirst(i, result) ==
  /\ reset
  /\ IF result.error
     THEN UNCHANGED <<delivered, dashboard>>
     ELSE /\ delivered' = delivered \cup directorCalls[i].refs
          /\ dashboard' = [dashboard EXCEPT
                             !.recentItems = pushSuggestion(@, result.suggestion, now)]

\* requestDirectorSuggestion after its await: getDirectorSuggestion returned
directorSuggestionReturned(i, result) ==
  IF result.error
  THEN UNCHANGED <<directorBuffer, delivered, dashboard>>
  ELSE /\ reset
       /\ delivered' = delivered \cup directorCalls[i].refs
       /\ dashboard' = [dashboard EXCEPT
                          !.recentItems = pushSuggestion(@, result.suggestion, now)]

\* dashboard.js POST /suggest: the .then callback of getDirectorSuggestion
postSuggestReturned(i, result) ==
  IF result.error
  THEN UNCHANGED <<directorBuffer, delivered, dashboard>>
  ELSE /\ reset
       /\ delivered' = delivered \cup directorCalls[i].refs
       /\ dashboard' = [dashboard EXCEPT
                          !.recentItems = pushSuggestion(@, result.suggestion, now)]

(***************************************************************************)
(* dashboard.js: claim extraction, automatic (listener) and manual.        *)
(***************************************************************************)
\* the replies of the claim service: an error, an empty list, a list of claims
ClaimResults ==
  { [error |-> TRUE, claims |-> 0],
    [error |-> FALSE, claims |-> 0],
    [error |-> FALSE, claims |-> 1] }

\* the .then callback of the listener's getClaimExtraction call
autoExtractReturned(result) ==
  IF result.error
  THEN UNCHANGED claimBuffer
  ELSE IF result.claims > 0 THEN resetClaimBuffer ELSE UNCHANGED claimBuffer

\* the .then callback of POST /claims/extract
postClaimsExtractReturned(result) == resetClaimBuffer

(***************************************************************************)
(* voiceHandler.js: setupVoiceReceive.  A turn is one run of the 'start'   *)
(* handler that passed its guards: a subscription, a decoder, the chunks   *)
(* array, the PIPELINE_MAX_MS timer and the decoder's 'end' listener.  The *)
(* decoder is a stream of its own: the timeout destroys the subscription   *)
(* and leaves the decoder and its listeners in place.                      *)
(***************************************************************************)
PIPELINE_MAX_MS == 45000

\* errored and appended are history: whether the decoder has emitted 'error',
\* and the entries appended for the turn
NewTurn(userId) ==
  [userId |-> userId, chunks |-> 0, timeout |-> "armed", decoder |-> "open",
   transcribing |-> FALSE, appended |-> 0, errored |-> FALSE]

\* the listener as it would be without the two returns for bots
onSpeakingStartWithoutBotChecks(userId, st) ==
  IF userId \in st.speakers THEN st
  ELSE [speakers |-> st.speakers \cup {userId}, turns |-> Append(st.turns, NewTurn(userId))]

\* the listener as it would be without the return for an active speaker
onSpeakingStartWithoutHasCheck(userId, st) ==
  IF userId = botUserId \/ Members[userId].bot THEN st
  ELSE [speakers |-> st.speakers \cup {userId}, turns |-> Append(st.turns, NewTurn(userId))]

\* one run of the 'start' listener; st holds activeSpeakers and the pipelines
onSpeakingStart(userId, st) ==
  IF userId = botUserId \/ Members[userId].bot \/ userId \in st.speakers THEN st
  ELSE [speakers |-> st.speakers \cup {userId}, turns |-> Append(st.turns, NewTurn(userId))]

\* receiver.speaking.emit('start', userId): every listener registered by a
\* setupVoiceReceive call runs, one after the other
RECURSIVE emitStart(_, _, _)
emitStart(listeners, userId, st) ==
  IF listeners = 0 THEN st
  ELSE emitStart(listeners - 1, userId, onSpeakingStart(userId, st))

\* the callback as it would be without activeSpeakers.delete(userId)
onPipelineTimeoutKeepsSpeaker(t) ==
  /\ activeSpeakers' = activeSpeakers
  /\ turns' = [turns EXCEPT ![t].timeout = "fired"]

\* the callback of setTimeout(..., PIPELINE_MAX_MS)
onPipelineTimeout(t) ==
  /\ activeSpeakers' = activeSpeakers \ {turns[t].userId}
  /\ turns' = [turns EXCEPT ![t].timeout = "fired"]

(***************************************************************************)
(* transcriber.js: transcribeBuffer.  JavaScript numbers are IEEE 754       *)
(* doubles: the quotient and the product of durationMs are each rounded to *)
(* 53 significant bits, to nearest, ties to even.  A positive double is a   *)
(* record [bits, exp]: bits are its significant binary digits, the most    *)
(* significant first, and exp is the exponent of the last digit, so that   *)
(* its value is ToInt(bits) * 2^exp.                                       *)
(***************************************************************************)
MantissaBits == 53

\* the binary digits of a natural number, without leading zeros
RECURSIVE Bits(_)
Bits(n) == IF n = 0 THEN <<>> ELSE Append(Bits(n \div 2), n % 2)

\* the number a sequence of binary digits stands for
RECURSIVE ToInt(_)
ToInt(bits) ==
  IF bits = <<>> THEN 0
  ELSE 2 * ToInt(SubSeq(bits, 1, Len(bits) - 1)) + bits[Len(bits)]

\* the digits of ToInt(bits) + 1
RECURSIVE Increment(_)
Increment(bits) ==
  IF bits = <<>> THEN <<1>>
  ELSE IF bits[Len(bits)] = 0 THEN Append(SubSeq(bits, 1, Len(bits) - 1), 1)
  ELSE Append(Increment(SubSeq(bits, 1, Len(bits) - 1)), 0)

\* rounding of an exact result to a double: x.bits may hold more than 53
\* digits, x.sticky tells that non-zero digits follow them
RoundToDouble(x) ==
  IF Len(x.bits) <= MantissaBits THEN [bits |-> x.bits, exp |-> x.exp]
  ELSE LET kept == SubSeq(x.bits, 1, MantissaBits)
           guard == x.bits[MantissaBits + 1]
           rest == x.sticky \/ \E i \in (MantissaBits + 2)..Len(x.bits) : x.bits[i] = 1
           up == guard = 1 /\ (rest \/ kept[MantissaBits] = 1)
           rounded == IF up THEN Increment(kept) ELSE kept
           exp == x.exp + (Len(x.bits) - MantissaBits)
       IN  IF Len(rounded) > MantissaBits
           THEN [bits |-> SubSeq(rounded, 1, MantissaBits), exp |-> exp + 1]
           ELSE [bits |-> rounded, exp |-> exp]

\* long division: the first 54 significant digits of the quotient whose
\* digits so far are bits and whose remainder is r, over the divisor d
RECURSIVE DivBits(_, _, _, _)
DivBits(bits, r, d, exp) ==
  IF Len(bits) > MantissaBits \/ (r = 0 /\ bits # <<>>)
  THEN [bits |-> bits, exp |-> exp, sticky |-> r # 0]
  ELSE LET digit == (2 * r) \div d
       IN  DivBits(IF bits = <<>> /\ digit = 0 THEN <<>> ELSE Append(bits, digit),
                   (2 * r) % d, d, exp - 1)

\* a / d in double arithmetic, for integers a > 0 and d > 0
DoubleDivide(a, d) == RoundToDouble(DivBits(Bits(a \div d), a % d, d, 0))

\* the digits of ToInt(bits) * k, by the school method from the last digit
\* on: low holds the digits computed so far
RECURSIVE TimesSmall(_, _, _, _)
TimesSmall(bits, k, carry, low) ==
  IF Len(low) = Len(bits) THEN Bits(carry) \o low
  ELSE LET t == bits[Len(bits) - Len(low)] * k + carry
       IN  TimesSmall(bits, k, t \div 2, <<t % 2>> \o low)

\* x * k in double arithmetic, for a double x and an integer k > 1
DoubleTimes(x, k) ==
  RoundToDouble([bits |-> TimesSmall(x.bits, k, 0, <<>>), exp |-> x.exp, sticky |-> FALSE])

\* Math.floor of a double below 2^31
DoubleFloor(x) ==
  IF x.exp >= 0 THEN ToInt(x.bits) * 2^(x.exp)
  ELSE IF Len(x.bits) + x.exp <= 0 THEN 0
  ELSE ToInt(SubSeq(x.bits, 1, Len(x.bits) + x.exp))

\* (pcmBuffer.length / (sampleRate * channels * 2)) * 1000, rounded down
durationMsFloor(bytes) ==
  IF bytes = 0 THEN 0
  ELSE DoubleFloor(DoubleTimes(DoubleDivide(bytes, sampleRate * channels * 2), 1000))

\* the lengths of the PCM buffers the decoder's chunks add up to
PcmLengths == {k * ChunkBytes : k \in 0..MaxFrames}

\* durationMs of every such buffer, computed once
DurationMsFloor == [bytes \in PcmLengths |-> durationMsFloor(bytes)]

\* transcribeBuffer before its network call: true when it returns null at
\* once; for the integer minAudioMs, durationMs < minAudioMs exactly when
\* the floor of durationMs is below it
TooShort(bytes) == DurationMsFloor[bytes] < config.minAudioMs

\* the listener as it would be without clearTimeout(timeout)
onDecoderEndKeepsTimer(t) ==
  /\ activeSpeakers' = activeSpeakers \ {turns[t].userId}
  /\ turns' = [turns EXCEPT
                 ![t].decoder = "ended",
                 ![t].transcribing = turns[t].chunks > 0
                                     /\ ~TooShort(turns[t].chunks * ChunkBytes)]

\* the decoder's 'end' listener up to its await
onDecoderEnd(t) ==
  /\ activeSpeakers' = activeSpeakers \ {turns[t].userId}
  /\ turns' = [turns EXCEPT
                 ![t].decoder = "ended",
                 ![t].timeout = IF @ = "armed" THEN "cleared" ELSE @,
                 ![t].transcribing = turns[t].chunks > 0
                                     /\ ~TooShort(turns[t].chunks * ChunkBytes)]

\* the label as it would be without the username fallback
SpeakerLabelWithoutUsername(userId) ==
  IF userId = config.hostUserId THEN "HOST"
  ELSE IF Members[userId].displayName # NoValue THEN Members[userId].displayName
  ELSE userId

\* the speaker label of an entry
SpeakerLabel(userId) ==
  IF userId = config.hostUserId THEN "HOST"
  ELSE IF Members[userId].displayName # NoValue THEN Members[userId].displayName
  ELSE IF Members[userId].username # NoValue THEN Members[userId].username
  ELSE userId

\* the normalisation as it would be without the replace of trailing punctuation
NormalizedKeepsPunctuation(text) == ToLowerCase(Trim(text))

\* text.trim().toLowerCase().replace(/[.!?]+$/, '')
Normalized(text) == StripEndPunct(ToLowerCase(Trim(text)))

\* the replies of the transcription service: the raw transcript; <<>> also
\* stands for an error reply, which transcribeBuffer turns into null as well
RawTranscripts ==
  { <<>>, <<" ", "O", "k", ".">>, <<"o", "k", " ", "t">> }

\* the decoder's 'end' listener after its await: transcribeBuffer returned
onTranscribed(t, raw) ==
  LET text == Trim(raw)
      userId == turns[t].userId
  IN  IF text = <<>>
      THEN /\ turns' = [turns EXCEPT ![t].transcribing = FALSE]
           /\ UNCHANGED <<logVars, dashboard, ttsVars, claimCalls, directorCalls>>
      ELSE /\ append(SpeakerLabel(userId), text, userId)
           /\ turns' = [turns EXCEPT ![t].transcribing = FALSE, ![t].appended = @ + 1]
           /\ IF userId = config.hostUserId
                 /\ config.directorTriggerPhrases # {}
                 /\ Normalized(text) \in config.directorTriggerPhrases
              THEN requestDirectorSuggestion("phrase", directorBuffer', entries')
              ELSE UNCHANGED directorCalls

(***************************************************************************)
(* The state after the modules are loaded: nothing joined, empty log.      *)
(***************************************************************************)
InitWith(configs) ==
  /\ config \in configs
  /\ startListeners = 0
  /\ activeSpeakers = {}
  /\ turns = <<>>
  /\ currentConnection = FALSE
  /\ audioPlayer = FALSE
  /\ playerStatus = "Idle"
  /\ ttsQueue = <<>>
  /\ graceTimers = 0
  /\ pollTimers = 0
  /\ synthPending = {}
  /\ nextItem = 0
  /\ started = <<>>
  /\ now = 0
  /\ entries = <<>>
  /\ log = <<>>
  /\ directorBuffer = <<>>
  /\ claimBuffer = <<>>
  /\ session = [logPath |-> FALSE, captionPath |-> FALSE, startMs |-> 0,
                lastCaptionEndMs |-> 0, logLines |-> 0, captionBlocks |-> 0]
  /\ directorCalls = <<>>
  /\ claimCalls = <<>>
  /\ delivered = {}
  /\ dashboard = [lastVideoTopic |-> <<>>, lastVideoTopicAt |-> 0,
                  lastLatestVideoChannel |-> <<>>, lastLatestVideoChannelAt |-> 0,
                  recentItems |-> <<>>, videoQueue |-> <<>>, currentVideoUrl |-> NoUrl,
                  lastTopicCheckLogLength |-> 0, topicCheckInProgress |-> FALSE]
  /\ logAppendListeners = <<"dashboard">>
  /\ headDeferred = FALSE
  /\ clearedUpTo = 0
  /\ topicCovered = 0
  /\ last = [op |-> "init"]

(***************************************************************************)
(* Steps.                                                                  *)
(***************************************************************************)
\* Date.now() advances
Tick ==
  /\ now < MaxClock
  /\ now' = now + 1
  /\ last' = [op |-> "tick"]
  /\ UNCHANGED <<logAppendListeners, headDeferred, clearedUpTo, topicCovered>>
  /\ UNCHANGED <<config, voiceVars, ttsVars, logVars, callVars, dashboard>>

\* index.js doJoinChannel: setupVoiceReceive, setTTSConnection, startSessionLog
DoJoinChannel ==
  /\ startListeners < MaxJoins
  /\ startListeners' = startListeners + 1
  /\ setConnection
  /\ startSessionLog
  /\ last' = [op |-> "join"]
  /\ UNCHANGED <<logAppendListeners, headDeferred, clearedUpTo>>
  /\ topicCovered' = 0
  /\ UNCHANGED <<config, activeSpeakers, turns, now, callVars, dashboard>>

\* receiver.speaking emits 'start' for a user: every registered listener runs
SpeakingStart(userId) ==
  /\ startListeners > 0
  /\ LET st == emitStart(startListeners, userId,
                         [speakers |-> activeSpeakers, turns |-> turns])
     IN  /\ Len(st.turns) <= MaxTurns
         /\ activeSpeakers' = st.speakers
         /\ turns' = st.turns
  /\ last' = [op |-> "start", userId |-> userId, opened |-> turns' # turns]
  /\ UNCHANGED <<logAppendListeners, headDeferred, clearedUpTo, topicCovered>>
  /\ UNCHANGED <<config, startListeners, ttsVars, now, logVars, callVars, dashboard>>

\* the decoder of a turn emits 'data'
DecoderData(t) ==
  /\ turns[t].decoder = "open"
  /\ turns[t].chunks < MaxChunks
  /\ turns' = [turns EXCEPT ![t].chunks = @ + 1]
  /\ last' = [op |-> "data", turn |-> t]
  /\ UNCHANGED <<logAppendListeners, headDeferred, clearedUpTo, topicCovered>>
  /\ UNCHANGED <<config, startListeners, activeSpeakers, ttsVars, now, logVars, callVars,
                 dashboard>>

\* the numbers of frames a long stretch of speech is decoded into
FrameBursts == {24, 200}

\* the decoder of a turn emits 'data' n times in a row
DecoderBurst(t, n) ==
  /\ turns[t].decoder = "open"
  /\ turns[t].chunks + n <= MaxFrames
  /\ turns' = [turns EXCEPT ![t].chunks = @ + n]
  /\ last' = [op |-> "data", turn |-> t]
  /\ UNCHANGED <<logAppendListeners, headDeferred, clearedUpTo, topicCovered>>
  /\ UNCHANGED <<config, startListeners, activeSpeakers, ttsVars, now, logVars, callVars,
                 dashboard>>

\* the decoder of a turn emits 'error': the listener logs a warning.
\* destroyed: whether the stream destroys itself after the error (it then
\* emits neither 'data' nor 'end') or goes on decoding
DecoderError(t, destroyed) ==
  /\ turns[t].decoder = "open"
  /\ ~turns[t].errored
  /\ turns' = [turns EXCEPT ![t].errored = TRUE,
                            ![t].decoder = IF destroyed THEN "destroyed" ELSE @]
  /\ last' = [op |-> "error", turn |-> t]
  /\ UNCHANGED <<logAppendListeners, headDeferred, clearedUpTo, topicCovered>>
  /\ UNCHANGED <<config, startListeners, activeSpeakers, ttsVars, now, logVars, callVars,
                 dashboard>>

\* the decoder of a turn emits 'end'
DecoderEnd(t) ==
  /\ turns[t].decoder = "open"
  /\ onDecoderEnd(t)
  /\ last' = [op |-> "end", turn |-> t]
  /\ UNCHANGED <<logAppendListeners, headDeferred, clearedUpTo, topicCovered>>
  /\ UNCHANGED <<config, startListeners, ttsVars, now, logVars, callVars, dashboard>>

\* the PIPELINE_MAX_MS timer of a turn fires
PipelineTimeout(t) ==
  /\ turns[t].timeout = "armed"
  /\ onPipelineTimeout(t)
  /\ last' = [op |-> "timeout", turn |-> t]
  /\ UNCHANGED <<logAppendListeners, headDeferred, clearedUpTo, topicCovered>>
  /\ UNCHANGED <<config, startListeners, ttsVars, now, logVars, callVars, dashboard>>

\* transcribeBuffer returns to the 'end' listener of a turn
TranscribeReturns(t, raw) ==
  /\ turns[t].transcribing
  /\ Trim(raw) # <<>> => Len(entries) < 2 * MaxAppends
  /\ onTranscribed(t, raw)
  /\ last' = [op |-> "transcribed", turn |-> t, text |-> Trim(raw)]
  /\ headDeferred' = (headDeferred /\ graceTimers' <= graceTimers)
  /\ UNCHANGED <<logAppendListeners, clearedUpTo, topicCovered>>
  /\ UNCHANGED <<config, startListeners, activeSpeakers, now, delivered>>

Speak ==
  /\ Enqueue("speak")
  /\ last' = [op |-> "speak"]
  /\ headDeferred' = (headDeferred /\ graceTimers' <= graceTimers)
  /\ UNCHANGED <<logAppendListeners, clearedUpTo, topicCovered>>
  /\ UNCHANGED <<config, voiceVars, now, logVars, callVars, dashboard>>

PlayLocalMp3 ==
  /\ Enqueue("mp3")
  /\ last' = [op |-> "playLocalMp3"]
  /\ headDeferred' = (headDeferred /\ graceTimers' <= graceTimers)
  /\ UNCHANGED <<logAppendListeners, clearedUpTo, topicCovered>>
  /\ UNCHANGED <<config, voiceVars, now, logVars, callVars, dashboard>>

ClearConnection ==
  /\ currentConnection
  /\ clearConnection
  /\ last' = [op |-> "clearConnection"]
  /\ headDeferred' = FALSE
  /\ clearedUpTo' = nextItem
  /\ UNCHANGED <<logAppendListeners, topicCovered>>
  /\ UNCHANGED <<config, voiceVars, now, logVars, callVars, dashboard>>

PollTimer ==
  /\ PollTimerFires
  /\ last' = [op |-> "poll"]
  /\ headDeferred' = (headDeferred /\ graceTimers' <= graceTimers)
  /\ UNCHANGED <<logAppendListeners, clearedUpTo, topicCovered>>
  /\ UNCHANGED <<config, voiceVars, now, logVars, callVars, dashboard>>

GraceTimer(exists) ==
  /\ GraceTimerFires(exists)
  /\ last' = [op |-> "grace"]
  /\ headDeferred' = IF isAnyoneSpeaking(activeSpeakers) THEN TRUE
                     ELSE headDeferred /\ graceTimers' < graceTimers
  /\ UNCHANGED <<logAppendListeners, clearedUpTo, topicCovered>>
  /\ UNCHANGED <<config, voiceVars, now, logVars, callVars, dashboard>>

SynthDone(item, stream) ==
  /\ SynthReturns(item, stream)
  /\ last' = [op |-> "synth", item |-> item.id, stream |-> stream]
  /\ headDeferred' = (headDeferred /\ graceTimers' <= graceTimers)
  /\ UNCHANGED <<logAppendListeners, clearedUpTo, topicCovered>>
  /\ UNCHANGED <<config, voiceVars, now, logVars, callVars, dashboard>>

IdleEvent ==
  /\ PlayerIdle
  /\ last' = [op |-> "idle"]
  /\ headDeferred' = (headDeferred /\ graceTimers' <= graceTimers)
  /\ UNCHANGED <<logAppendListeners, clearedUpTo, topicCovered>>
  /\ UNCHANGED <<config, voiceVars, now, logVars, callVars, dashboard>>

\* the texts passed to append by its callers
AppendTexts ==
  { <<>>, <<" ">>, <<" ", "a", "b", " ">>, <<"a", "b", "c">> }

\* one call of append by a caller, e.g. dashboard.js append('AI', response)
AppendCalled(speaker, text) ==
  /\ append(speaker, text, NoValue)
  /\ last' = [op |-> "append", speaker |-> speaker, text |-> text,
              notified |-> AppendDispatch(text).called,
              threw |-> AppendDispatch(text).thrown]
  /\ headDeferred' = (headDeferred /\ graceTimers' <= graceTimers)
  /\ UNCHANGED <<logAppendListeners, clearedUpTo, topicCovered>>
  /\ UNCHANGED <<config, voiceVars, now, directorCalls, delivered>>

\* a caller appends a line; MaxAppends lines are appended in all
CallAppend(speaker, text) ==
  /\ Trim(text) # <<>> => Len(entries) < 2 * MaxAppends
  /\ AppendCalled(speaker, text)

\* a caller appends a line to the log of the session; a session has at most
\* MaxLines lines
AppendLine(speaker, text) ==
  /\ Len(log) < MaxLines
  /\ AppendCalled(speaker, text)

StartSessionLog ==
  /\ startSessionLog
  /\ last' = [op |-> "startSessionLog"]
  /\ UNCHANGED <<logAppendListeners, headDeferred, clearedUpTo>>
  /\ topicCovered' = 0
  /\ UNCHANGED <<config, voiceVars, ttsVars, now, callVars, dashboard>>

\* index.js: the /suggest slash command
SuggestCommand ==
  /\ requestDirectorSuggestion("command", directorBuffer, entries)
  /\ last' = [op |-> "suggestCommand"]
  /\ UNCHANGED <<logAppendListeners, headDeferred, clearedUpTo, topicCovered>>
  /\ UNCHANGED <<config, voiceVars, ttsVars, now, logVars, claimCalls, delivered, dashboard>>

\* dashboard.js: POST /suggest up to its getDirectorSuggestion call
PostSuggest ==
  /\ IF Len(getRecentForDirector) = 0
     THEN UNCHANGED directorCalls
     ELSE /\ Len(directorCalls) < MaxSuggestions
          /\ directorCalls' = Append(directorCalls,
               [messages |-> getRecentForDirector, refs |-> SentRefs(directorBuffer),
                path |-> "dashboard"])
  /\ last' = [op |-> "postSuggest"]
  /\ UNCHANGED <<logAppendListeners, headDeferred, clearedUpTo, topicCovered>>
  /\ UNCHANGED <<config, voiceVars, ttsVars, now, logVars, claimCalls, delivered, dashboard>>

\* a module registers a listener
OnLogAppend(fn) ==
  /\ Len(logAppendListeners) < MaxListeners
  /\ onLogAppend(fn)
  /\ last' = [op |-> "onLogAppend", fn |-> fn]
  /\ UNCHANGED <<headDeferred, clearedUpTo, topicCovered>>
  /\ UNCHANGED <<config, voiceVars, ttsVars, now, logVars, callVars, dashboard>>

\* a caller appends a value of any kind: a string, null or undefined
CallAppendAny(speaker, text) ==
  IF appendRaises(text)
  THEN /\ last' = [op |-> "append", speaker |-> speaker, text |-> text,
                   notified |-> <<>>, threw |-> TRUE]
       /\ UNCHANGED <<logAppendListeners, headDeferred, clearedUpTo, topicCovered>>
       /\ UNCHANGED <<config, voiceVars, ttsVars, now, logVars, callVars, dashboard>>
  ELSE CallAppend(speaker, text)

\* the dashboard sends POST /video/load
PostVideoLoad(payload) ==
  /\ dashboard' = postVideoLoad(payload, dashboard).dashboard
  /\ last' = [op |-> "videoLoad", payload |-> payload,
              status |-> postVideoLoad(payload, dashboard).status]
  /\ UNCHANGED <<logAppendListeners, headDeferred, clearedUpTo, topicCovered>>
  /\ UNCHANGED <<config, voiceVars, ttsVars, now, logVars, callVars>>

\* the viewer sends POST /video/ended, or the dashboard POST /video/next
PostVideoNext ==
  /\ dashboard' = postVideoNext(dashboard)
  /\ last' = [op |-> "videoNext"]
  /\ UNCHANGED <<logAppendListeners, headDeferred, clearedUpTo, topicCovered>>
  /\ UNCHANGED <<config, voiceVars, ttsVars, now, logVars, callVars>>

\* the dashboard sends POST /video/stop
PostVideoStop ==
  /\ dashboard' = postVideoStop(dashboard)
  /\ last' = [op |-> "videoStop"]
  /\ UNCHANGED <<logAppendListeners, headDeferred, clearedUpTo, topicCovered>>
  /\ UNCHANGED <<config, voiceVars, ttsVars, now, logVars, callVars>>

\* the topic interval of startDashboard fires
TopicTick ==
  /\ dashboard' = onTopicInterval(dashboard, Len(getLog))
  /\ topicCovered' = IF topicCheckDue(dashboard, Len(getLog)) THEN Len(getLog)
                     ELSE topicCovered
  /\ last' = [op |-> "topicTick", requested |-> topicCheckDue(dashboard, Len(getLog))]
  /\ UNCHANGED <<logAppendListeners, headDeferred, clearedUpTo>>
  /\ UNCHANGED <<config, voiceVars, ttsVars, now, logVars, callVars>>

\* getTopicUpdate returns to the interval callback that called it
TopicReturns(result) ==
  /\ dashboard.topicCheckInProgress
  /\ dashboard' = onTopicUpdate(dashboard, result)
  /\ last' = [op |-> "topicReturned", error |-> result.error]
  /\ UNCHANGED <<logAppendListeners, headDeferred, clearedUpTo, topicCovered>>
  /\ UNCHANGED <<config, voiceVars, ttsVars, now, logVars, callVars>>

\* the dashboard sends PATCH /conversation
PatchConversation(payload) ==
  /\ patchConversation(payload)
  /\ last' = [op |-> "patchConversation", payload |-> payload,
              status |-> patchConversationStatus(payload)]
  /\ UNCHANGED <<logAppendListeners, headDeferred, clearedUpTo, topicCovered>>
  /\ UNCHANGED <<config, voiceVars, ttsVars, now, log, directorBuffer, claimBuffer, session,
                 callVars, dashboard>>

\* a caller reads the director window: getRecentForDirector() returns new
\* arrays and objects and assigns nothing
GetRecentForDirector ==
  /\ last' = [op |-> "getRecentForDirector", messages |-> getRecentForDirector]
  /\ UNCHANGED <<logAppendListeners, headDeferred, clearedUpTo, topicCovered>>
  /\ UNCHANGED <<config, voiceVars, ttsVars, now, logVars, callVars, dashboard>>

\* getDirectorSuggestion returns to the caller that awaits it
DirectorReturns(i, result) ==
  /\ directorCalls' = RemoveAt(directorCalls, i)
  /\ IF directorCalls[i].path = "dashboard"
     THEN postSuggestReturned(i, result)
     ELSE directorSuggestionReturned(i, result)
  /\ last' = [op |-> "directorReturned", path |-> directorCalls[i].path,
              error |-> result.error]
  /\ UNCHANGED <<logAppendListeners, headDeferred, clearedUpTo, topicCovered>>
  /\ UNCHANGED <<config, voiceVars, ttsVars, now, entries, log, claimBuffer, session,
                 claimCalls>>

\* dashboard.js: POST /claims/extract up to its getClaimExtraction call
PostClaimsExtract ==
  /\ IF Len(getRecentForClaimExtraction) = 0
     THEN UNCHANGED claimCalls
     ELSE /\ Len(claimCalls) < MaxCalls
          /\ claimCalls' = Append(claimCalls,
               [messages |-> getRecentForClaimExtraction, path |-> "manual"])
  /\ last' = [op |-> "postClaimsExtract"]
  /\ UNCHANGED <<logAppendListeners, headDeferred, clearedUpTo, topicCovered>>
  /\ UNCHANGED <<config, voiceVars, ttsVars, now, logVars, directorCalls, delivered,
                 dashboard>>

\* getClaimExtraction returns to the callback that waits for it
ClaimReturns(i, result) ==
  /\ claimCalls' = RemoveAt(claimCalls, i)
  /\ IF claimCalls[i].path = "manual"
     THEN postClaimsExtractReturned(result)
     ELSE autoExtractReturned(result)
  /\ last' = [op |-> "claimReturned", path |-> claimCalls[i].path, error |-> result.error]
  /\ UNCHANGED <<logAppendListeners, headDeferred, clearedUpTo, topicCovered>>
  /\ UNCHANGED <<config, voiceVars, ttsVars, now, entries, log, directorBuffer, session,
                 directorCalls, delivered, dashboard>>

(***************************************************************************)
(* Specifications.  Spec is the capture pipeline with the log and the      *)
(* calls it triggers; SpecPlayback is the playback queue with the speaking *)
(* registry; SpecLog is the conversation log driven through its interface. *)
(***************************************************************************)
Next ==
  \/ DoJoinChannel
  \/ \E u \in UserIds : SpeakingStart(u)
  \/ \E t \in DOMAIN turns : DecoderData(t)
  \/ \E t \in DOMAIN turns : DecoderEnd(t)
  \/ \E t \in DOMAIN turns : PipelineTimeout(t)
  \/ \E t \in DOMAIN turns : \E raw \in RawTranscripts : TranscribeReturns(t, raw)
  \/ \E i \in DOMAIN directorCalls : \E r \in DirectorResults : DirectorReturns(i, r)
  \/ \E i \in DOMAIN claimCalls : \E r \in ClaimResults : ClaimReturns(i, r)

Init == InitWith({DefaultConfig})

Spec == Init /\ [][Next]_vars

NextPlayback ==
  \/ DoJoinChannel
  \/ ClearConnection
  \/ \E u \in UserIds : SpeakingStart(u)
  \/ \E t \in DOMAIN turns : DecoderEnd(t)
  \/ \E t \in DOMAIN turns : PipelineTimeout(t)
  \/ Speak
  \/ PlayLocalMp3
  \/ PollTimer
  \/ \E exists \in BOOLEAN : GraceTimer(exists)
  \/ \E item \in synthPending : \E stream \in BOOLEAN : SynthDone(item, stream)
  \/ IdleEvent

SpecPlayback == Init /\ [][NextPlayback]_vars

NextLog ==
  \/ Tick
  \/ StartSessionLog
  \/ \E sp \in {"AI"} : \E text \in AppendTexts : CallAppend(sp, text)
  \/ SuggestCommand
  \/ PostSuggest
  \/ \E i \in DOMAIN directorCalls : \E r \in DirectorResults : DirectorReturns(i, r)
  \/ PostClaimsExtract
  \/ \E i \in DOMAIN claimCalls : \E r \in ClaimResults : ClaimReturns(i, r)

InitLog == InitWith(Configs)

SpecLog == InitLog /\ [][NextLog]_vars

\* the configurations with and without DISCORD_HOST_USER_ID, the automatic
\* claim extraction switched off
TurnConfigs ==
  {[DefaultConfig EXCEPT !.hostUserId = h, !.autoExtractMinLineLength = 0] :
     h \in {"host", NoValue}}

\* SpecTurns is the capture pipeline for every kind of participant
NextTurns ==
  \/ DoJoinChannel
  \/ \E u \in Humans \cup Uncached : SpeakingStart(u)
  \/ \E t \in DOMAIN turns : DecoderData(t)
  \/ \E t \in DOMAIN turns : DecoderEnd(t)
  \/ \E t \in DOMAIN turns : PipelineTimeout(t)
  \/ \E t \in DOMAIN turns : \E raw \in RawTranscripts : TranscribeReturns(t, raw)
  \/ \E i \in DOMAIN directorCalls : \E r \in DirectorResults : DirectorReturns(i, r)

InitTurns == InitWith(TurnConfigs)

SpecTurns == InitTurns /\ [][NextTurns]_vars

\* the configurations with the automatic claim extraction switched off
ApiConfigs == {c \in Configs : c.autoExtractMinLineLength = 0}

\* SpecApi is the conversation log called through its exported functions
NextApi ==
  \/ Tick
  \/ \E sp \in {"AI"} : \E text \in AppendTexts : CallAppend(sp, text)
  \/ \E fn \in ListenerArgs : OnLogAppend(fn)
  \/ GetRecentForDirector
  \/ PostSuggest
  \/ \E i \in DOMAIN directorCalls : \E r \in DirectorResults : DirectorReturns(i, r)

InitApi == InitWith(ApiConfigs)

SpecApi == InitApi /\ [][NextApi]_vars

\* SpecEdit is the conversation log with the dashboard's transcript edits
NextEdit ==
  \/ Tick
  \/ \E sp \in {"AI"} : \E text \in AppendTexts : CallAppend(sp, text)
  \/ \E payload \in Payloads : PatchConversation(payload)

SpecEdit == InitApi /\ [][NextEdit]_vars

\* the values of DEEPGRAM_MIN_AUDIO_MS tried
MinAudioMsValues == {40, 500, 4020}

\* the configurations that vary the minimum audio length, with no trigger
\* phrase and the automatic claim extraction switched off
GateConfigs ==
  {[DefaultConfig EXCEPT !.minAudioMs = m, !.autoExtractMinLineLength = 0,
                         !.directorTriggerPhrases = {}] : m \in MinAudioMsValues}

\* SpecGate is the capture pipeline with turns of up to MaxFrames frames
NextGate ==
  \/ DoJoinChannel
  \/ \E u \in Humans : SpeakingStart(u)
  \/ \E t \in DOMAIN turns : DecoderData(t)
  \/ \E t \in DOMAIN turns : \E n \in FrameBursts : DecoderBurst(t, n)
  \/ \E t \in DOMAIN turns : DecoderEnd(t)
  \/ \E t \in DOMAIN turns : \E raw \in RawTranscripts : TranscribeReturns(t, raw)

InitGate == InitWith(GateConfigs)

SpecGate == InitGate /\ [][NextGate]_vars

\* the configuration with no trigger phrase and the automatic claim
\* extraction switched off
VoiceConfigs ==
  {[DefaultConfig EXCEPT !.autoExtractMinLineLength = 0, !.directorTriggerPhrases = {}]}

\* SpecVoice is the capture pipeline with decode errors and the clock
NextVoice ==
  \/ Tick
  \/ DoJoinChannel
  \/ \E u \in Humans : SpeakingStart(u)
  \/ \E t \in DOMAIN turns : DecoderData(t)
  \/ \E t \in DOMAIN turns : \E destroyed \in BOOLEAN : DecoderError(t, destroyed)
  \/ \E t \in DOMAIN turns : DecoderEnd(t)
  \/ \E t \in DOMAIN turns : PipelineTimeout(t)
  \/ \E t \in DOMAIN turns : \E raw \in RawTranscripts : TranscribeReturns(t, raw)

InitVoice == InitWith(VoiceConfigs)

SpecVoice == InitVoice /\ [][NextVoice]_vars

\* the lines appended in SpecClaims: those of AppendTexts and a video command
ClaimTexts ==
  AppendTexts
    \cup {<<"p", "u", "l", "l", " ", "a", " ", "v", "i", "d", "e", "o", " ", "o", "f", " ", "x">>}

\* SpecClaims is the conversation log with the dashboard's listener and the
\* automatic claim extraction
NextClaims ==
  \/ Tick
  \/ \E sp \in {"AI"} : \E text \in ClaimTexts : CallAppend(sp, text)
  \/ \E i \in DOMAIN claimCalls : \E r \in ClaimResults : ClaimReturns(i, r)

SpecClaims == InitLog /\ [][NextClaims]_vars

\* SpecOrder is the capture pipeline with the clock, every turn ending by
\* its decoder's 'end' and every transcription returning text
NextOrder ==
  \/ Tick
  \/ DoJoinChannel
  \/ \E u \in UserIds : SpeakingStart(u)
  \/ \E t \in DOMAIN turns : DecoderData(t)
  \/ \E t \in DOMAIN turns : DecoderEnd(t)
  \/ \E t \in DOMAIN turns : TranscribeReturns(t, <<"o", "k", " ", "t">>)

SpecOrder == InitVoice /\ [][NextOrder]_vars

\* SpecStarts is the speaking registry: the events that open and close turns
NextStarts ==
  \/ DoJoinChannel
  \/ \E u \in Humans : SpeakingStart(u)
  \/ \E t \in DOMAIN turns : DecoderData(t)
  \/ \E t \in DOMAIN turns : \E destroyed \in BOOLEAN : DecoderError(t, destroyed)
  \/ \E t \in DOMAIN turns : DecoderEnd(t)
  \/ \E t \in DOMAIN turns : PipelineTimeout(t)

SpecStarts == InitVoice /\ [][NextStarts]_vars

\* SpecLive is the speaking registry with its timers: a PIPELINE_MAX_MS
\* timer that stays armed fires; the decoder may end, fail or stay silent
NextLive ==
  \/ DoJoinChannel
  \/ \E u \in Humans : SpeakingStart(u)
  \/ \E t \in DOMAIN turns : \E destroyed \in BOOLEAN : DecoderError(t, destroyed)
  \/ \E t \in DOMAIN turns : DecoderEnd(t)
  \/ \E t \in DOMAIN turns : PipelineTimeout(t)

TimersFire == \A t \in 1..MaxTurns : WF_vars(t \in DOMAIN turns /\ PipelineTimeout(t))

SpecLive == InitVoice /\ [][NextLive]_vars /\ TimersFire

\* SpecSuggest is the director flow with its three triggers: the host's
\* trigger phrase, the /suggest command and the dashboard's POST /suggest
NextSuggest ==
  \/ DoJoinChannel
  \/ SpeakingStart("host")
  \/ \E t \in DOMAIN turns : DecoderData(t)
  \/ \E t \in DOMAIN turns : DecoderEnd(t)
  \/ \E t \in DOMAIN turns : TranscribeReturns(t, <<" ", "O", "k", ".">>)
  \/ SuggestCommand
  \/ PostSuggest
  \/ \E i \in DOMAIN directorCalls : \E r \in DirectorResults : DirectorReturns(i, r)

SpecSuggest == InitTurns /\ [][NextSuggest]_vars

\* SpecDrain is the playback queue with its timers, calls and player under
\* the scheduling of the event loop: a pending timer fires, a pending
\* getTTSStream call returns, a playing resource ends
NextDrain ==
  \/ DoJoinChannel
  \/ ClearConnection
  \/ SpeakingStart("host")
  \/ \E t \in DOMAIN turns : DecoderEnd(t)
  \/ Speak
  \/ PlayLocalMp3
  \/ PollTimer
  \/ \E exists \in BOOLEAN : GraceTimer(exists)
  \/ \E item \in synthPending : \E stream \in BOOLEAN : SynthDone(item, stream)
  \/ IdleEvent

EventLoopRuns ==
  /\ WF_vars(PollTimer)
  /\ WF_vars(\E exists \in BOOLEAN : GraceTimer(exists))
  /\ WF_vars(\E item \in synthPending : \E stream \in BOOLEAN : SynthDone(item, stream))
  /\ WF_vars(IdleEvent)

SpecDrain == Init /\ [][NextDrain]_vars /\ EventLoopRuns

\* SpecAppend is append called with strings, null and undefined, with
\* listeners that return or throw, before and after a session starts
NextAppend ==
  \/ Tick
  \/ StartSessionLog
  \/ \E fn \in ListenerArgs : OnLogAppend(fn)
  \/ \E sp \in {"AI"} : \E text \in AppendTexts \cup Nullish : CallAppendAny(sp, text)

SpecAppend == InitApi /\ [][NextAppend]_vars

\* SpecVideo is the video queue driven by the dashboard and the viewer
NextVideo ==
  \/ \E payload \in VideoPayloads : PostVideoLoad(payload)
  \/ PostVideoNext
  \/ PostVideoStop

SpecVideo == Init /\ [][NextVideo]_vars

\* the configurations that vary minNewMessages, the automatic claim
\* extraction switched off
TopicConfigs ==
  {[DefaultConfig EXCEPT !.topicMinNewMessages = m, !.autoExtractMinLineLength = 0] :
     m \in {0, 1, 2}}

\* SpecTopic is the periodic topic check over the logs of successive sessions
NextTopic ==
  \/ DoJoinChannel
  \/ AppendLine("AI", <<"a", "b", "c">>)
  \/ TopicTick
  \/ \E result \in TopicResults : TopicReturns(result)

InitTopic == InitWith(TopicConfigs)

SpecTopic == InitTopic /\ [][NextTopic]_vars

(***************************************************************************)
(* Properties.                                                             *)
(***************************************************************************)
Range(seq) == {seq[i] : i \in DOMAIN seq}

\* the entries a window holds, in order
WindowEntries(buffer) == [i \in 1..Len(buffer) |-> entries[buffer[i]]]

\* a turn that is capturing or draining: started, neither ended nor timed out
Capturing(t) == turns[t].decoder = "open" /\ turns[t].timeout = "armed"

\* a turn that exists: capturing, draining or awaiting its transcription
TurnExists(t) == Capturing(t) \/ turns[t].transcribing

\* C1: whenever an item is handed to audioPlayer.play, nobody is speaking
C1_PlayOnlyInSilence ==
  [][started' # started => ~isAnyoneSpeaking(activeSpeakers)]_vars

\* C2: with a connection attached throughout and nobody ever speaking, the
\* items are started on the player in the order they were enqueued, each once
C2_StartedInQueueOrder ==
  (currentConnection /\ startListeners = 1 /\ turns = <<>>)
    => \A i, j \in DOMAIN started : i < j => started[i] < started[j]

\* C3: audioPlayer.play is called only while the player is Idle, so at most
\* one item is rendered at a time
C3_PlayOnlyWhenIdle ==
  [][started' # started => playerStatus = "Idle"]_vars

\* C4: a turn's participant is removed by the decoder end handler or by the
\* forced timeout, never by both, and a removal made for one turn never
\* removes the membership of a later turn (a capturing turn's participant
\* is in the speaking set)
C4_RemovedOncePerTurn ==
  \A t \in DOMAIN turns :
    /\ ~(turns[t].decoder = "ended" /\ turns[t].timeout = "fired")
    /\ Capturing(t) => turns[t].userId \in activeSpeakers

\* C5: no two turns of the same participant exist at the same time, a turn
\* existing from its start event until its transcription call has returned
C5_OneTurnPerParticipant ==
  \A t1, t2 \in DOMAIN turns :
    (t1 # t2 /\ turns[t1].userId = turns[t2].userId)
      => ~(TurnExists(t1) /\ TurnExists(t2))

\* C6: a turn closed by the forced timeout never appends a transcript entry
\* and is not handed to transcription, whatever its decoder emits afterwards
C6_TimedOutTurnAppendsNothing ==
  \A t \in DOMAIN turns :
    turns[t].timeout = "fired" => (turns[t].appended = 0 /\ ~turns[t].transcribing)

\* C7: within a session an entry leaves the director window only after a
\* director request whose messages contained it returned without error
C7_LeavesWindowOnlyAfterDelivery ==
  [][last'.op \notin {"join", "startSessionLog"}
       => \A ref \in Range(directorBuffer) \ Range(directorBuffer') : ref \in delivered']_vars

\* C8: an append with text that is non-empty after trimming adds exactly one
\* entry, last in the log, and an entry with the same speaker, text and
\* timestamp at the end of both windows; the earlier entries of the log and
\* of both windows keep their position and content
C8_AppendAddsOneEntry ==
  [][(last'.op = "append" /\ Trim(last'.text) # <<>>) =>
       LET new == [speaker |-> last'.speaker, text |-> Trim(last'.text), timestamp |-> now]
           same(e) == /\ e.speaker = new.speaker
                      /\ e.text = new.text
                      /\ e.timestamp = new.timestamp
       IN  /\ Len(log') = Len(log) + 1
           /\ SubSeq(getLog', 1, Len(log)) = getLog
           /\ same(getLog'[Len(log')])
           /\ Len(directorBuffer') = Len(directorBuffer) + 1
           /\ SubSeq(WindowEntries(directorBuffer)', 1, Len(directorBuffer))
                = WindowEntries(directorBuffer)
           /\ same(WindowEntries(directorBuffer)'[Len(directorBuffer')])
           /\ Len(claimBuffer') = Len(claimBuffer) + 1
           /\ SubSeq(WindowEntries(claimBuffer)', 1, Len(claimBuffer))
                = WindowEntries(claimBuffer)
           /\ same(WindowEntries(claimBuffer)'[Len(claimBuffer')])]_vars

\* an append of a non-empty line to a log that already holds an entry
C8_Witness ==
  /\ last.op = "append"
  /\ Trim(last.text) # <<>>
  /\ Len(log) >= 2
  /\ Len(directorBuffer) >= 2
  /\ Len(claimBuffer) >= 2

\* C9: a claim-extraction call that returns an error leaves the claim window
\* unchanged, on the automatic and on the manual path
C9_FailedExtractionKeepsWindow ==
  [][(last'.op = "claimReturned" /\ last'.error) => claimBuffer' = claimBuffer]_vars

\* C10: a director-suggestion call that returns an error leaves the director
\* window unchanged, and only a call that returned without error resets it
C10_FailedSuggestionKeepsWindow ==
  [][/\ (last'.op = "directorReturned" /\ last'.error) => directorBuffer' = directorBuffer
     /\ (last'.op \notin {"join", "startSessionLog"} /\ Range(directorBuffer) \ Range(directorBuffer') # {})
          => (last'.op = "directorReturned" /\ ~last'.error)]_vars

\* a call made by the /suggest command has returned an error and the window
\* still holds the entries it sent
C10_Witness ==
  /\ last.op = "directorReturned"
  /\ last.error
  /\ last.path = "command"
  /\ directorBuffer # <<>>

\* the smaller of two numbers
Min(a, b) == IF a <= b THEN a ELSE b

\* C11: getRecentForDirector returns the last N entries of the director
\* window in append order and changes nothing; two calls in a row return the
\* same messages; right after the reset that follows a successful request
\* it returns an empty list
C11_RecentIsLastNAndPure ==
  [][last'.op = "getRecentForDirector" =>
       LET w == WindowEntries(directorBuffer)
           k == Min(config.contextMessages, Len(w))
           got == last'.messages
       IN  /\ <<entries, log, directorBuffer, claimBuffer, session>>'
                = <<entries, log, directorBuffer, claimBuffer, session>>
           /\ Len(got) = k
           /\ \A i \in 1..k :
                /\ got[i].speaker = w[Len(w) - k + i].speaker
                /\ got[i].text = w[Len(w) - k + i].text
                /\ got[i].timestamp = <<"iso", w[Len(w) - k + i].timestamp>>
           /\ (last.op = "getRecentForDirector" => got = last.messages)
           /\ ((last.op = "directorReturned" /\ ~last.error) => got = <<>>)]_vars

\* a read of a window longer than N, and a read right after a reset
C11_Witness ==
  /\ last.op = "getRecentForDirector"
  /\ Len(directorBuffer) > config.contextMessages
  /\ Len(last.messages) = config.contextMessages
  /\ last.messages[1].text # entries[directorBuffer[1]].text

\* C12: a successful append calls every registered listener once, in
\* registration order; a listener that throws stops neither the later
\* listeners nor the append, and the entry stays in the log and both windows
C12_EveryListenerNotified ==
  [][(last'.op = "append" /\ Trim(last'.text) # <<>>) =>
       /\ last'.notified = logAppendListeners
       /\ ~last'.threw
       /\ Len(log') = Len(log) + 1
       /\ getLog'[Len(log')].text = Trim(last'.text)
       /\ WindowEntries(directorBuffer)'[Len(directorBuffer')].text = Trim(last'.text)
       /\ WindowEntries(claimBuffer)'[Len(claimBuffer')].text = Trim(last'.text)
       /\ (session.logPath => session'.logLines = session.logLines + 1)]_vars

\* an append with a throwing listener registered before another listener
C12_Witness ==
  /\ last.op = "append"
  /\ Trim(last.text) # <<>>
  /\ logAppendListeners = <<"dashboard", "throws", "returns">>
  /\ last.notified = <<"dashboard", "throws", "returns">>

ItemIds(items) == {it.id : it \in items}

\* C14: when getTTSStream returns no stream the item is dropped unplayed,
\* the queue keeps its items and their order, and processQueue runs at once:
\* with a connection, a waiting item and an idle player a timer is armed
\* without any Idle event
C14_FailedSynthesisDropsItem ==
  [][(last'.op = "synth" /\ ~last'.stream) =>
       /\ started' = started
       /\ last'.item \notin Range(started')
       /\ last'.item \notin ItemIds(Range(ttsQueue')) \cup ItemIds(synthPending')
       /\ ttsQueue' = ttsQueue
       /\ playerStatus' = playerStatus
       /\ (currentConnection /\ audioPlayer /\ ttsQueue # <<>> /\ playerStatus = "Idle")
            => IF isAnyoneSpeaking(activeSpeakers)
               THEN pollTimers' = pollTimers + 1 /\ graceTimers' = graceTimers
               ELSE graceTimers' = graceTimers + 1 /\ pollTimers' = pollTimers]_vars

\* a synthesis has failed while another item waits and the player is idle
C14_Witness ==
  /\ last.op = "synth"
  /\ ~last.stream
  /\ currentConnection
  /\ ttsQueue # <<>>
  /\ playerStatus = "Idle"
  /\ graceTimers > 0

\* the label each participant's entries must carry
ExpectedLabel(userId) ==
  IF config.hostUserId = userId THEN "HOST"
  ELSE CASE userId = "host" -> "Khi"
         [] userId = "guest" -> "ann02"
         [] OTHER -> userId

\* C15: a turn appends at most one entry; a transcription that returns text
\* appends exactly one, labelled HOST for the configured host, else with the
\* display name, else the username, else the participant ID; a decoder that
\* ends without chunks and a null or empty transcript append nothing
C15_OneLabelledEntryPerTurn ==
  [][/\ \A t \in DOMAIN turns' : turns'[t].appended <= 1
     /\ last'.op = "end" =>
          /\ log' = log
          /\ turns[last'.turn].chunks = 0 => ~turns'[last'.turn].transcribing
     /\ last'.op = "transcribed" =>
          IF last'.text = <<>>
          THEN log' = log /\ turns'[last'.turn].appended = turns[last'.turn].appended
          ELSE /\ Len(log') = Len(log) + 1
               /\ SubSeq(log', 1, Len(log)) = log
               /\ getLog'[Len(log')].speaker = ExpectedLabel(turns[last'.turn].userId)
               /\ getLog'[Len(log')].text = last'.text
               /\ getLog'[Len(log')].userId = turns[last'.turn].userId
               /\ turns'[last'.turn].appended = 1]_vars

\* the transcript of a participant missing from the member cache was appended
\* after an entry labelled with a username
C15_Witness ==
  /\ last.op = "transcribed"
  /\ last.text # <<>>
  /\ Len(log) = 2
  /\ getLog[1].speaker = "ann02"
  /\ getLog[2].speaker = "visitor"

\* C16: the entry of a returned transcript invokes the director flow once
\* when the participant is the configured host and the text is the trigger
\* phrase "ok" up to case and trailing punctuation ("Ok."); the near match
\* "ok t" and every entry of another participant invoke nothing
C16_TriggerOnExactPhraseOfHost ==
  [][(last'.op = "transcribed" /\ last'.text # <<>>) =>
       IF turns[last'.turn].userId = config.hostUserId /\ last'.text = <<"O", "k", ".">>
       THEN /\ Len(directorCalls') = Len(directorCalls) + 1
            /\ SubSeq(directorCalls', 1, Len(directorCalls)) = directorCalls
            /\ directorCalls'[Len(directorCalls')].path = "phrase"
       ELSE directorCalls' = directorCalls]_vars

\* the host has said "Ok." and the call of the director flow is in flight
C16_Witness ==
  /\ last.op = "transcribed"
  /\ last.text = <<"O", "k", ".">>
  /\ turns[last.turn].userId = config.hostUserId
  /\ Len(directorCalls) = 1
  /\ directorCalls[1].path = "phrase"

\* C17: an edit made through PATCH /conversation changes neither the
\* speaker nor the text of any entry that getRecentForDirector or
\* getRecentForClaimExtraction return
C17_EditLeavesWindows ==
  [][last'.op = "patchConversation" =>
       /\ getRecentForDirector' = getRecentForDirector
       /\ getRecentForClaimExtraction' = getRecentForClaimExtraction]_vars

C19_BlankAppendIsNoOp ==
  [][(last'.op = "append" /\ Trim(last'.text) = <<>>) =>
       /\ <<entries, log, directorBuffer, claimBuffer>>'
            = <<entries, log, directorBuffer, claimBuffer>>
       /\ session' = session
       /\ last'.notified = <<>>
       /\ <<claimCalls, dashboard, ttsQueue>>' = <<claimCalls, dashboard, ttsQueue>>]_vars

\* a blank line was passed to append during a session that has entries
C19_Witness ==
  /\ last.op = "append"
  /\ last.text = <<" ">>
  /\ session.logPath
  /\ Len(log) >= 1
  /\ Len(directorBuffer) >= 1

\* s is an initial part of t
IsPrefix(s, t) == Len(s) <= Len(t) /\ SubSeq(t, 1, Len(s)) = s

\* C20: the reset of the director window empties that window and leaves
\* the claim window and the log alone; the reset of the claim window empties
\* that window and leaves the director window and the log alone; an append
\* keeps the entries of both windows in place and adds at most one at the end
C20_WindowsAreIndependent ==
  [][/\ (last'.op = "directorReturned" /\ ~last'.error) =>
          /\ directorBuffer' = <<>>
          /\ WindowEntries(claimBuffer)' = WindowEntries(claimBuffer)
          /\ getLog' = getLog
     /\ last'.op = "claimReturned" =>
          /\ claimBuffer' = <<>> \/ claimBuffer' = claimBuffer
          /\ WindowEntries(directorBuffer)' = WindowEntries(directorBuffer)
          /\ getLog' = getLog
     /\ last'.op = "append" =>
          /\ IsPrefix(WindowEntries(directorBuffer), WindowEntries(directorBuffer)')
          /\ IsPrefix(WindowEntries(claimBuffer), WindowEntries(claimBuffer)')
          /\ Len(directorBuffer') <= Len(directorBuffer) + 1
          /\ Len(claimBuffer') <= Len(claimBuffer) + 1]_vars

\* the director window of two entries was reset while the claim window kept
\* its entries
C20_Witness ==
  /\ last.op = "directorReturned"
  /\ ~last.error
  /\ directorBuffer = <<>>
  /\ Len(claimBuffer) = 2
  /\ Len(log) = 2

\* C21: clearConnection empties the playback queue at once; no item that was
\* enqueued before a clearConnection call is handed to audioPlayer.play after
\* it, an item already dequeued whose synthesis is pending included; speak
\* and playLocalMp3 called while no connection is attached leave the queue
\* empty
C21_ClearAbandonsItems ==
  [][/\ last'.op = "clearConnection" => ttsQueue' = <<>>
     /\ started' # started => started'[Len(started')] > clearedUpTo'
     /\ (last'.op \in {"speak", "playLocalMp3"} /\ ~currentConnection)
          => ttsQueue' = <<>>]_vars

\* C22: startSessionLog clears the log, the director window and the claim
\* window: right after a session start getLog, getRecentForDirector and
\* getRecentForClaimExtraction return nothing, and every entry they return
\* later was created by an append made after that start (a step brings only
\* entries it creates into the log and the windows)
C22_SessionStartClearsAll ==
  [][/\ last'.op \in {"join", "startSessionLog"} =>
          /\ getLog' = <<>>
          /\ getRecentForDirector' = <<>>
          /\ getRecentForClaimExtraction' = <<>>
          /\ log' = <<>> /\ directorBuffer' = <<>> /\ claimBuffer' = <<>>
     /\ \A ref \in Range(log') \cup Range(directorBuffer') \cup Range(claimBuffer') :
          \/ ref \in Range(log) \cup Range(directorBuffer) \cup Range(claimBuffer)
          \/ ref > Len(entries)]_vars

\* a session was started after an earlier session had appended lines, and a
\* line was appended since
C22_Witness ==
  /\ last.op = "append"
  /\ Len(entries) = 4
  /\ Len(log) = 1
  /\ Len(directorBuffer) = 1
  /\ Len(claimBuffer) = 1

\* the duration of a buffer of the given number of frames is below the
\* configured minimum: frames * ChunkBytes / (48000 * 2 * 2) * 1000 < minAudioMs
BelowMinimum(frames) ==
  frames * ChunkBytes * 1000 < config.minAudioMs * (sampleRate * channels * 2)

\* C23: a PCM buffer whose duration is strictly below minAudioMs is never
\* sent to the transcription service and yields no transcript entry; a buffer
\* whose duration is at or above minAudioMs is sent (an API key being set)
C23_ShortAudioIsSkipped ==
  [][/\ (last'.op = "end" /\ turns[last'.turn].chunks > 0) =>
          (turns'[last'.turn].transcribing <=> ~BelowMinimum(turns[last'.turn].chunks))
     /\ last'.op = "transcribed" => ~BelowMinimum(turns[last'.turn].chunks)]_vars

\* C24: a decode error closes its turn, which appends no transcript entry
\* and is not transcribed; the other turns, the log and the memberships of
\* other participants stay as they were
C24_DecodeErrorClosesTurn ==
  [][/\ last'.op = "error" =>
          /\ turns'[last'.turn].timeout # "armed"
          /\ turns[last'.turn].userId \notin activeSpeakers'
          /\ activeSpeakers' \ {turns[last'.turn].userId}
               = activeSpeakers \ {turns[last'.turn].userId}
          /\ \A t \in DOMAIN turns : t # last'.turn => turns'[t] = turns[t]
          /\ log' = log
     /\ last'.op = "transcribed" => ~turns[last'.turn].errored
     /\ \A t \in DOMAIN turns' : turns'[t].errored =>
          (turns'[t].appended = 0 /\ ~turns'[t].transcribing)]_vars

\* C25: a 'start' event for the bot's own user or for a member flagged as a
\* bot adds nothing to the speaking set and opens no turn; no bot is ever in
\* the speaking set, has a turn or an entry in the log, so the bot's own
\* playback never makes isAnyoneSpeaking() true
C25_BotsNeverSpeak ==
  [][/\ (last'.op = "start" /\ last'.userId \in Bots) =>
          /\ activeSpeakers' = activeSpeakers
          /\ turns' = turns
          /\ isAnyoneSpeaking(activeSpeakers') = isAnyoneSpeaking(activeSpeakers)
     /\ activeSpeakers' \cap Bots = {}
     /\ \A t \in DOMAIN turns' : turns'[t].userId \notin Bots
     /\ \A i \in DOMAIN getLog' : getLog'[i].userId \notin Bots]_vars

\* the bot's own 'start' event arrived on a silent channel after a human's
\* turn had been transcribed
C25_Witness ==
  /\ last.op = "start"
  /\ last.userId = botUserId
  /\ ~isAnyoneSpeaking(activeSpeakers)
  /\ Len(log) = 1

\* C26: with T = autoExtractMinLineLength, an appended entry whose text is
\* longer than T > 0 triggers one claim-extraction request over the current,
\* non-empty claim window; with T = 0 or a text of at most T characters the
\* append triggers none
C26_LongLineTriggersExtraction ==
  [][(last'.op = "append" /\ Trim(last'.text) # <<>>) =>
       IF config.autoExtractMinLineLength > 0
          /\ Len(Trim(last'.text)) > config.autoExtractMinLineLength
       THEN /\ Len(claimCalls') = Len(claimCalls) + 1
            /\ SubSeq(claimCalls', 1, Len(claimCalls)) = claimCalls
            /\ claimCalls'[Len(claimCalls')].messages = getRecentForClaimExtraction'
            /\ getRecentForClaimExtraction' # <<>>
       ELSE claimCalls' = claimCalls]_vars

\* C27: within a session the log only grows at its end: the log before a
\* step is a prefix of the log after it; the entry of a returned transcript
\* is added last whichever participant and turn it belongs to, so the log is
\* ordered by the order in which transcriptions return; the timestamps are
\* non-decreasing along the log
C27_LogOrderedByArrival ==
  [][/\ last'.op # "join" => IsPrefix(getLog, getLog')
     /\ (last'.op = "transcribed" /\ last'.text # <<>>) =>
          /\ Len(log') = Len(log) + 1
          /\ getLog'[Len(log')].userId = turns[last'.turn].userId
          /\ getLog'[Len(log')].text = last'.text
          /\ getLog'[Len(log')].timestamp = now
     /\ \A i, j \in DOMAIN getLog' :
          i < j => getLog'[i].timestamp <= getLog'[j].timestamp]_vars

\* the turn that started second was transcribed first, at an earlier time
C27_Witness ==
  /\ last.op = "transcribed"
  /\ Len(log) = 2
  /\ Len(turns) = 2
  /\ getLog[1].userId = turns[2].userId
  /\ getLog[2].userId = turns[1].userId
  /\ getLog[1].timestamp < getLog[2].timestamp

\* C28: a 'start' event for a participant who is in the speaking set changes
\* nothing: the speaking set and the pipelines (subscription, decoder and
\* timeout timer of each turn) stay as they were; an event opens at most one
\* pipeline, also when a repeated join has registered the listener twice
C28_RepeatedStartIsIgnored ==
  [][last'.op = "start" =>
       /\ last'.userId \in activeSpeakers =>
            (activeSpeakers' = activeSpeakers /\ turns' = turns)
       /\ Len(turns') <= Len(turns) + 1
       /\ SubSeq(turns', 1, Len(turns)) = turns
       /\ Cardinality(activeSpeakers') <= Cardinality(activeSpeakers) + 1]_vars

\* with the listener registered twice, a 'start' event arrived for a
\* participant whose turn was open
C28_Witness ==
  /\ last.op = "start"
  /\ ~last.opened
  /\ startListeners = 2
  /\ Len(turns) = 1
  /\ Capturing(1)
  /\ activeSpeakers = {last.userId}

\* C29: an item leaves the queue for playback only in a grace callback that
\* has just found the speaking set empty, and the timer of every grace
\* callback was armed in an earlier step by a processQueue call that found a
\* waiting item, an idle player and an empty speaking set: no item is
\* dequeued after a single check
C29_DequeueAfterTwoChecks ==
  [][/\ (ttsQueue' # ttsQueue /\ Len(ttsQueue') < Len(ttsQueue)
         /\ last'.op # "clearConnection") =>
          /\ last'.op = "grace"
          /\ graceTimers > 0
          /\ ~isAnyoneSpeaking(activeSpeakers)
          /\ ttsQueue' = Tail(ttsQueue)
     /\ graceTimers' > graceTimers - (IF last'.op = "grace" THEN 1 ELSE 0) =>
          /\ ~isAnyoneSpeaking(activeSpeakers')
          /\ playerStatus' = "Idle"
          /\ ttsQueue' # <<>>
          /\ currentConnection']_vars

\* a grace callback has dequeued the first of two items for synthesis
C29_Witness ==
  /\ last.op = "grace"
  /\ nextItem = 2
  /\ Len(ttsQueue) = 1
  /\ ItemIds(synthPending) = {1}
  /\ ~isAnyoneSpeaking(activeSpeakers)

\* C30: every participant in the speaking set is eventually removed from it,
\* by the decoder's end or at the latest by the 45 s timeout, also when the
\* decoder fails or never ends; if from some point on no 'start' event
\* arrives, the speaking set becomes empty and stays empty
C30_SpeakersEventuallyRemoved ==
  /\ \A u \in Humans : (u \in activeSpeakers) ~> (u \notin activeSpeakers)
  /\ <>[][last'.op # "start"]_vars => <>[](~isAnyoneSpeaking(activeSpeakers))

\* the decoder of a turn failed and never ended; the timeout removed the
\* participant
C30_Witness ==
  /\ last.op = "timeout"
  /\ turns[last.turn].decoder = "destroyed"
  /\ turns[last.turn].timeout = "fired"
  /\ ~isAnyoneSpeaking(activeSpeakers)

\* C31: the 'end' listener of a turn cancels the turn's 45 s timer in the
\* step in which it closes the turn, so the timeout callback never runs for
\* a turn whose decoder has ended: no timeout step belongs to a turn closed
\* by 'end', whatever later turns of the same participant are open
C31_EndCancelsTimer ==
  [][/\ last'.op = "end" => turns'[last'.turn].timeout # "armed"
     /\ last'.op = "timeout" =>
          /\ turns[last'.turn].decoder # "ended"
          /\ \A t \in DOMAIN turns :
               (turns[t].decoder = "ended" /\ turns[t].timeout = "cleared")
                 => turns'[t] = turns[t]]_vars

\* a participant's first turn ended with its timer cleared; the timeout of
\* the same participant's second turn has fired
C31_Witness ==
  /\ last.op = "timeout"
  /\ last.turn = 2
  /\ turns[1].userId = turns[2].userId
  /\ turns[1].decoder = "ended"
  /\ turns[1].timeout = "cleared"
  /\ turns[2].timeout = "fired"

\* C32: a director-suggestion request is sent only while no other request is
\* in flight, so that at most one is pending at any time and a trigger that
\* arrives while a request is pending sends none of the pending request's
\* entries again
C32_OneSuggestionInFlight ==
  [][Len(directorCalls') > Len(directorCalls) =>
       /\ directorCalls = <<>>
       /\ \A i \in DOMAIN directorCalls :
            directorCalls'[Len(directorCalls')].refs \cap directorCalls[i].refs = {}]_vars

\* a waiting item that nothing will ever dequeue: the player is idle, nobody
\* speaks, no poll or grace timer is pending and no getTTSStream call is awaited
Stalled ==
  /\ ttsQueue # <<>>
  /\ playerStatus = "Idle"
  /\ ~isAnyoneSpeaking(activeSpeakers)
  /\ graceTimers = 0
  /\ pollTimers = 0
  /\ synthPending = {}

C34_OneSchedulerTimer == graceTimers + pollTimers <= 1

\* C35: the entries of one participant enter the log in the order of the
\* participant's turns: when the entry of a turn is appended, no later turn
\* of the same participant has an entry in the log yet
C35_ParticipantOrder ==
  [][(last'.op = "transcribed"
        /\ turns'[last'.turn].appended > turns[last'.turn].appended) =>
       \A t2 \in DOMAIN turns :
         (t2 > last'.turn /\ turns[t2].userId = turns[last'.turn].userId)
           => turns[t2].appended = 0]_vars

\* C36: append never throws: for every text value, null and undefined
\* included, a call either appends one entry or returns normally and leaves
\* the log, the windows, the session files, the dashboard and the calls in
\* flight as they were
C36_AppendNeverThrows ==
  [][last'.op = "append" =>
       /\ ~last'.threw
       /\ \/ Len(log') = Len(log) + 1
          \/ /\ logVars' = logVars
             /\ dashboard' = dashboard
             /\ callVars' = callVars]_vars

\* C37: a POST /video/load request that is rejected, with status 400 or
\* 403, leaves the video queue and the current video URL as they were
C37_RejectedLoadChangesNothing ==
  [][(last'.op = "videoLoad" /\ last'.status # 200) =>
       /\ dashboard'.videoQueue = dashboard.videoQueue
       /\ dashboard'.currentVideoUrl = dashboard.currentVideoUrl]_vars

\* C38: after a session has started, a tick of the topic interval that finds
\* no check in progress, at least 2 entries in the session's log and at
\* least minNewMessages of them not covered by a check of this session
\* requests a topic update, whatever length the log of the session before
\* had reached
C38_TopicCheckAfterNewSession ==
  [][(/\ last'.op = "topicTick"
      /\ session.logPath
      /\ ~dashboard.topicCheckInProgress
      /\ Len(getLog) >= 2
      /\ Len(getLog) - topicCovered >= minNewMessages)
       => last'.requested]_vars

====
